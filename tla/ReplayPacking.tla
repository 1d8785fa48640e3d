--------------------------- MODULE ReplayPacking ---------------------------
(***************************************************************************)
(* AlpagymDataPacker on the trainer's side: the policy outputs of an episode *)
(* become a fixed number of rows, padded and with non-finite ones masked.    *)
(* A step of a kind of output, see TrainingState.                            *)
(***************************************************************************)
EXTENDS TrainingState

Outputs(e) == case.episodes[e].outputs
Kinds(e)   == StepKinds(case, e)

GoodSteps(kinds) == {i \in DOMAIN kinds : kinds[i] # "bad"}

(* The output whose model inputs row i gets: a bad step takes those of the  *)
(* first good one, if there is one.                                          *)
InputsOf(kinds, i) ==
  IF kinds[i] = "bad" /\ GoodSteps(kinds) # {} THEN Min(GoodSteps(kinds)) ELSE i

InputKeys(kinds, i) == IF kinds[InputsOf(kinds, i)] = "odd" THEN "odd" ELSE "usual"

Refused(kinds) ==
  \/ \E i \in DOMAIN kinds : kinds[i] = "none"
  \/ Len(kinds) > case.expected
  \/ kinds = <<>>
  \/ \E i \in DOMAIN kinds : InputKeys(kinds, i) # InputKeys(kinds, 1)

(* get_policy_input.                                                        *)
Row(e, output, padding, inputs) ==
  [episode |-> e, output |-> output, padding |-> padding, inputs |-> inputs]

PolicyInput(e, kinds) ==
  [i \in 1 .. case.expected |->
     IF i \in DOMAIN kinds
     THEN Row(e, i, kinds[i] = "bad", kinds[InputsOf(kinds, i)])
     ELSE Row(e, 0, TRUE, kinds[InputsOf(kinds, 1)])]

(* Whether the model can be trusted to be finite on a row's inputs.         *)
Finite(row) == row.inputs # "bad"

(* _stack_values: a top-level key that a row lacks is filled with zeros, a  *)
(* nested one raises.                                                        *)
Nested(row)     == row.inputs = "nested"
Stackable(batch) == Cardinality({Nested(b.row) : b \in batch}) <= 1

(* The forward and the loss.  Rows whose inputs are not finite may spoil the*)
(* gradient even where they are masked; a batch with no valid row, or only   *)
(* zero advantages and no KL term, has none; clipping may leave none on any   *)
(* other.                                                                    *)
Gradients(batch) ==
  LET rowOf == {b.row : b \in batch}
      pulls == \E b \in batch : ~ b.row.padding /\ (b.advantage # 0 \/ case.kl)
  IN  {"zero"} \cup (IF pulls THEN {"signal"} ELSE {})
      \cup (IF (\E row \in rowOf : ~ Finite(row)) \/ "diverge" \in case.faults THEN {"nonfinite"} ELSE {})
=============================================================================
