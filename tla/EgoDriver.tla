------------------------------ MODULE EgoDriver ------------------------------
(***************************************************************************)
(* The Egodriver service (alpasim/driver_server.py).  AlpaSim makes one call *)
(* at a time for a session, in an order of its own; calls of different      *)
(* sessions, the collector threads and the engine interleave.  A simulate() *)
(* that the worker has given up goes on making calls for a while.           *)
(***************************************************************************)
EXTENDS InferenceEngine

(* A call reaches a handler: the server takes calls, the session is known    *)
(* and AlpaSim has no other call of it under way.                            *)
Called(s) == accepting /\ phase[s] = "open" /\ rpc[s] = "idle"

StartSession(s) ==
  /\ accepting /\ phase[s] = "absent" /\ \E p \in Payloads : session[p] >= s
  /\ phase' = [phase EXCEPT ![s] = "open"]
  /\ UNCHANGED <<load, truth, tick, step, rpc, now, buf, episodeVars, expertVars, engineVars,
                 serverVars, jobVars, genVars>>

Observe(s, observed) ==
  /\ accepting /\ phase[s] = "open" /\ step[s] < load.ticks
  /\ tick' = [tick EXCEPT ![s] = observed]
  /\ UNCHANGED <<load, truth, phase, step, rpc, now, buf, episodeVars, expertVars, engineVars,
                 serverVars, jobVars, genVars>>

(* Observations may arrive while the drive call of the tick before is under  *)
(* way: they are for the next tick.  AlpaSim sends at most load.images       *)
(* images and load.submissions trajectories (of one pose) between two drives,*)
(* and its routes get later.                                                 *)
SubmitImage(s) ==
  /\ tick[s].frames < load.images
  /\ Observe(s, [tick[s] EXCEPT !.frames = @ + 1])

SubmitEgomotion(s, t) ==
  /\ Len(tick[s].poses) < load.submissions
  /\ Observe(s, [tick[s] EXCEPT !.poses = Append(@, t)])

SubmitRoute(s, t) ==
  /\ tick[s].route < t
  /\ Observe(s, [tick[s] EXCEPT !.route = t])

-----------------------------------------------------------------------------
(* drive() *)

(* Mutant: the next tick starts with the observations of this one.           *)
KeepTick(old) == old

(* consume_tick: only the route is carried over.                             *)
NextTick(old) == [EmptyTick EXCEPT !.route = old.route]

(* The trajectory of a policy_input is sorted by timestamp (a stable sort):  *)
(* pose i goes where as many poses are before it as sort before it.          *)
SortBefore(poses, i) ==
  {j \in DOMAIN poses : poses[j] < poses[i] \/ (poses[j] = poses[i] /\ j < i)}

InTimeOrder(poses) ==
  [n \in DOMAIN poses |->
     poses[CHOOSE i \in DOMAIN poses : Cardinality(SortBefore(poses, i)) = n - 1]]

(* policy_input_from_tick_buffer raises without an ego trajectory or a route.*)
Builds(input) == input.poses # <<>> /\ input.route # 0

(* The handler takes the tick, builds the input and lets the policy ingest   *)
(* it.  Whatever raises, the tick is spent.                                  *)
Drive(s) ==
  LET input == [tick[s] EXCEPT !.poses = InTimeOrder(@)]
  IN
  /\ Called(s) /\ step[s] < load.ticks
  /\ step' = [step EXCEPT ![s] = @ + 1]
  /\ tick' = [tick EXCEPT ![s] = NextTick(@)]
  /\ buf'  = IF Builds(input) THEN [buf EXCEPT ![s] = Ingest(@, input)] ELSE buf
  /\ IF Builds(input) /\ Prepares(buf[s], input)
       THEN /\ rpc' = [rpc EXCEPT ![s] = "ask"]
            /\ now' = [now EXCEPT ![s] = [tick |-> step'[s], poses |-> input.poses]]
       ELSE UNCHANGED <<rpc, now>>
  /\ UNCHANGED <<load, truth, phase, episodeVars, expertVars, engineVars, serverVars, jobVars, genVars>>

(* The rest of policy.step up to the wait for the engine.                    *)
AskEngine(s) ==
  /\ rpc[s] = "ask"
  /\ Infer(s)
  /\ rpc' = [rpc EXCEPT ![s] = "infer"]
  /\ UNCHANGED <<load, truth, phase, tick, step, now, buf, episodeVars, expertVars, batch, engine,
                 serverVars, jobVars, genVars>>

(* The handler returns: the response is sent, or the call is aborted.        *)
Return(s) ==
  /\ rpc' = [rpc EXCEPT ![s] = "idle"]
  /\ now' = [now EXCEPT ![s] = [tick |-> 0, poses |-> <<>>]]

(* policy.step raises after the answer: selector, horizon, missing poses.    *)
PostprocessRaises(s) ==
  /\ rpc[s] = "answered" /\ "postprocess" \in load.faults
  /\ Return(s)
  /\ UNCHANGED <<load, truth, phase, tick, step, buf, episodeVars, expertVars, engineVars, serverVars,
                 jobVars, genVars>>

StudentOutput(s) ==
  [tick |-> now[s].tick, label |-> None, driver |-> "student", masked |-> FALSE]

(* The poses the session has not seen executed yet, the input being sorted:  *)
(* those after the ones that are not newer than the last executed pose.      *)
SeenBefore(s) ==
  {i \in DOMAIN now[s].poses :
     executed[s] # <<>> /\ now[s].poses[i] <= executed[s][Len(executed[s])]}

Fresh(s) == SubSeq(now[s].poses, Cardinality(SeenBefore(s)) + 1, Len(now[s].poses))

RecordStep(s, out) ==
  /\ outputs'  = [outputs EXCEPT ![s] = Append(@, out)]
  /\ executed' = [executed EXCEPT ![s] = @ \o Fresh(s)]

(* drive_response_from_policy_output: AlpaSim gets the chosen trajectory.    *)
Respond(s, out) == drove' = [drove EXCEPT ![s] = Append(@, out.driver)]

RecordAndRespond(s, out) == RecordStep(s, out) /\ Respond(s, out) /\ Return(s)

(* Mutant: a tick without a query leaves no trace in expert_futures.         *)
SkipFuture(s, f) ==
  futures' = IF f = None THEN futures ELSE [futures EXCEPT ![s] = Append(@, f)]

PutFuture(s, f) == futures' = [futures EXCEPT ![s] = Append(@, f)]

(* No expert, or no query for this tick: no replay data, or the query raised.*)
RespondUnlabelled(s) ==
  /\ rpc[s] = "answered"
  /\ \/ load.expert = "off" /\ UNCHANGED futures
     \/ load.expert # "off" /\ "expert" \in load.faults /\ PutFuture(s, None)
  /\ RecordAndRespond(s, StudentOutput(s))
  /\ UNCHANGED <<load, truth, phase, tick, step, buf, ask, tokens, collector, record, hurried,
                 engineVars, serverVars, jobVars, genVars>>

Query(s) == ask' = [ask EXCEPT ![s][now[s].tick] = "asked"]

(* ALPAGYM_DAGGER_MIX_BETA = 0: the future is left for the collector.        *)
QueryAndRespond(s) ==
  /\ rpc[s] = "answered" /\ load.expert = "label"
  /\ Query(s) /\ PutFuture(s, now[s].tick)
  /\ RecordAndRespond(s, StudentOutput(s))
  /\ UNCHANGED <<load, truth, phase, tick, step, buf, tokens, collector, record, hurried, engineVars,
                 serverVars, jobVars, genVars>>

(* ALPAGYM_DAGGER_MIX_BETA > 0: the handler waits for the expert.            *)
QueryAndWait(s) ==
  /\ rpc[s] = "answered" /\ load.expert = "mix"
  /\ Query(s)
  /\ rpc' = [rpc EXCEPT ![s] = "expert"]
  /\ UNCHANGED <<load, truth, phase, tick, step, now, buf, episodeVars, futures, tokens, collector,
                 record, hurried, engineVars, serverVars, jobVars, genVars>>

(* Mutant: the output of the expert keeps the student's old_logprob.         *)
UnmaskedExpert(s, driver) == [StudentOutput(s) EXCEPT !.label = now[s].tick, !.driver = driver]

(* The answer labels the tick; if the coin says so and the answer has a      *)
(* usable trajectory, the expert drives, and old_logprob becomes NaN.        *)
LabelledOutput(s, driver) ==
  [StudentOutput(s) EXCEPT !.label = now[s].tick, !.driver = driver,
                           !.masked = (driver = "expert")]

RespondLabelled(s, driver) ==
  /\ rpc[s] = "expert" /\ ask[s][now[s].tick] = "answered"
  /\ PutFuture(s, None)
  /\ RecordAndRespond(s, LabelledOutput(s, driver))
  /\ UNCHANGED <<load, truth, phase, tick, step, buf, ask, tokens, collector, record, hurried,
                 engineVars, serverVars, jobVars, genVars>>

(* An error of the expert, or 120 seconds without an answer: the student     *)
(* drives.                                                                   *)
RespondAnyway(s) ==
  /\ rpc[s] = "expert" /\ "expert" \in load.faults /\ ask[s][now[s].tick] # "answered"
  /\ PutFuture(s, None)
  /\ RecordAndRespond(s, StudentOutput(s))
  /\ UNCHANGED <<load, truth, phase, tick, step, buf, ask, tokens, collector, record, hurried,
                 engineVars, serverVars, jobVars, genVars>>

(* The client's receiving thread settles the future the reply is for.        *)
Settled(reply) == IF reply = "error" THEN "failed" ELSE "answered"

(* The expert service takes one query after the other, in any order, and     *)
(* answers with a label or with what went wrong.                             *)
ExpertReplies(s, t) ==
  /\ ask[s][t] = "asked"
  /\ \E reply \in {"label", "error"} :
       /\ reply = "error" => "expert" \in load.faults
       /\ ask' = [ask EXCEPT ![s][t] = Settled(reply)]
  /\ UNCHANGED <<load, driverVars, episodeVars, futures, tokens, collector, record, hurried,
                 engineVars, serverVars, jobVars, genVars>>

-----------------------------------------------------------------------------
(* close_session: the record is frozen and kept before the collector of its  *)
(* futures starts; the policy's buffers are cleared.                         *)
CloseSession(s) ==
  /\ Called(s)
  /\ phase' = [phase EXCEPT ![s] = "closed"]
  /\ record' = [record EXCEPT ![s] = "kept"]
  /\ collector' = [collector EXCEPT ![s] = IF futures[s] = <<>> THEN "none" ELSE "collect"]
  /\ buf' = [buf EXCEPT ![s] = EmptyBuffers]
  /\ tick' = [tick EXCEPT ![s] = EmptyTick]
  /\ UNCHANGED <<load, truth, step, rpc, now, episodeVars, futures, ask, tokens, hurried, engineVars,
                 serverVars, jobVars, genVars>>

(* _collect_expert_futures waits for one future after the other; an error or *)
(* 600 seconds without an answer count as no label.                          *)
CollectFuture(s) ==
  LET f == futures[s][Len(tokens[s]) + 1] IN
  /\ collector[s] = "collect" /\ Len(tokens[s]) < Len(futures[s])
  /\ \/ f = None /\ tokens' = [tokens EXCEPT ![s] = Append(@, None)]
     \/ /\ f # None /\ ask[s][f] = "answered"
        /\ tokens' = [tokens EXCEPT ![s] = Append(@, f)]
     \/ /\ f # None /\ ask[s][f] # "answered" /\ "expert" \in load.faults
        /\ tokens' = [tokens EXCEPT ![s] = Append(@, None)]
  /\ UNCHANGED <<load, driverVars, episodeVars, futures, ask, collector, record, hurried,
                 engineVars, serverVars, jobVars, genVars>>

(* Output i of the record gets token i.                                      *)
Labelled(outs, toks) ==
  [i \in DOMAIN outs |-> IF i \in DOMAIN toks /\ toks[i] # None
                           THEN [outs[i] EXCEPT !.label = toks[i]] ELSE outs[i]]

(* A record that has been popped is not labelled any more.  The trajectory   *)
(* of a label may be unusable: the thread dies, the outputs before it are    *)
(* labelled and the event is never set.                                      *)
LabelRecord(s) ==
  /\ collector[s] = "collect" /\ Len(tokens[s]) = Len(futures[s])
  /\ \/ /\ collector' = [collector EXCEPT ![s] = "label"]
        /\ outputs' = IF record[s] = "kept"
                        THEN [outputs EXCEPT ![s] = Labelled(@, tokens[s])] ELSE outputs
     \/ /\ "inject" \in load.faults /\ record[s] = "kept"
        /\ \E i \in DOMAIN outputs[s] :
             /\ i \in DOMAIN tokens[s] /\ tokens[s][i] # None
             /\ outputs' = [outputs EXCEPT ![s] = Labelled(@, SubSeq(tokens[s], 1, i))]
        /\ collector' = [collector EXCEPT ![s] = "died"]
  /\ UNCHANGED <<load, driverVars, executed, drove, futures, ask, tokens, record, hurried,
                 engineVars, serverVars, jobVars, genVars>>

SetEvent(s) ==
  /\ collector[s] = "label"
  /\ collector' = [collector EXCEPT ![s] = "done"]
  /\ UNCHANGED <<load, driverVars, episodeVars, futures, ask, tokens, record, hurried,
                 engineVars, serverVars, jobVars, genVars>>

DriverNext(s) ==
  \/ StartSession(s) \/ SubmitImage(s)
  \/ \E t \in load.times : SubmitEgomotion(s, t) \/ SubmitRoute(s, t)
  \/ Drive(s) \/ AskEngine(s) \/ PostprocessRaises(s)
  \/ RespondUnlabelled(s) \/ QueryAndRespond(s) \/ QueryAndWait(s)
  \/ \E d \in {"student", "expert"} : RespondLabelled(s, d)
  \/ RespondAnyway(s)
  \/ CloseSession(s) \/ CollectFuture(s) \/ LabelRecord(s) \/ SetEvent(s)
  \/ \E t \in Ticks : ExpertReplies(s, t)
=============================================================================
