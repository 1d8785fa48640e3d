--------------------------- MODULE ArtifactCaches ---------------------------
(***************************************************************************)
(* The caches every run of a site shares: container images by digest        *)
(* (prepare_container_image) and AlpaSim checkouts by commit                 *)
(* (resolve_alpasim_checkout).  A miss is built in a private directory and   *)
(* published with os.replace.                                                *)
(***************************************************************************)
EXTENDS LaunchState

NeedsImage(r)    == Config(r).backend = "slurm" /\ Config(r).image = "registry"
NeedsCheckout(r) == Mode(r) # "cosmos" /\ Config(r).repo = "cached"

After(a) == IF a = "image" THEN "checkout" ELSE "reset"
Build(a) == IF a = "image" THEN "import" ELSE "build"

(* The caller catches nothing: the process ends.                            *)
Abort(r) == stage' = [stage EXCEPT ![r] = "ended"]

UnchangedElsewhere ==
  UNCHANGED <<case, attempt, struck, requeue, launched, procVars, cosmosVars, registryVars>>

(* An existing image path or checkout is taken as it is.                    *)
UseLocal(r, a) ==
  /\ stage[r] = a
  /\ a = "image" => ~ NeedsImage(r)
  /\ a = "checkout" => ~ NeedsCheckout(r)
  /\ stage' = [stage EXCEPT ![r] = After(a)]
  /\ UNCHANGED cacheVars /\ UnchangedElsewhere

(* What a tag or a ref stands for now: a digest, a commit SHA.              *)
Digest    == upstream["image"]
CommitSha == upstream["checkout"]
Resolved(a) == IF a = "image" THEN Digest ELSE CommitSha

(* The tag or ref is resolved first; the digest or SHA names the entry.     *)
Lookup(r, a) ==
  /\ stage[r] = a
  /\ IF a = "image" THEN NeedsImage(r) ELSE NeedsCheckout(r)
  /\ key' = [key EXCEPT ![r][a] = Resolved(a)]
  /\ stage' = [stage EXCEPT ![r] = IF cache[a][Resolved(a)] # Absent THEN After(a) ELSE Build(a)]
  /\ UNCHANGED <<upstream, cache, draft>> /\ UnchangedElsewhere

BeginFetch(r) ==
  /\ stage[r] \in {"import", "build"} /\ draft[r] = Absent
  /\ draft' = [draft EXCEPT ![r] = Partial]
  /\ UNCHANGED <<upstream, cache, key, stage>> /\ UnchangedElsewhere

(* Mutant: git fetches the ref again.                                       *)
FetchedByRef(r) == IF stage[r] = "import" THEN upstream["image"] ELSE upstream["checkout"]

(* enroot imports what the tag points at now; git fetches the commit.       *)
Fetched(r) == IF stage[r] = "import" THEN upstream["image"] ELSE key[r]["checkout"]

FinishFetch(r) ==
  /\ stage[r] \in {"import", "build"} /\ draft[r] = Partial
  /\ draft' = [draft EXCEPT ![r] = Fetched(r)]
  /\ UNCHANGED <<upstream, cache, key, stage>> /\ UnchangedElsewhere

(* The private directory is removed whatever the failure.                   *)
FetchFails(r) ==
  /\ "fetch" \in case.faults
  /\ stage[r] \in {"import", "build"} /\ draft[r] = Partial
  /\ draft' = [draft EXCEPT ![r] = Absent] /\ Abort(r)
  /\ UNCHANGED <<upstream, cache, key>> /\ UnchangedElsewhere

(* os.replace of the entry.                                                 *)
Publish(r, a) ==
  /\ stage[r] = Build(a) /\ draft[r] \notin {Absent, Partial}
  /\ draft' = [draft EXCEPT ![r] = Absent]
  /\ stage' = [stage EXCEPT ![r] = After(a)]
  /\ UNCHANGED <<upstream, key>> /\ UnchangedElsewhere

(* Of two imports of one digest the last wins.                              *)
PublishImage(r) ==
  /\ Publish(r, "image")
  /\ cache' = [cache EXCEPT !["image"][key[r]["image"]] = draft[r]]

(* A directory that is already there refuses and is reused.                 *)
PublishCheckout(r) ==
  /\ Publish(r, "checkout")
  /\ cache' = IF cache["checkout"][key[r]["checkout"]] # Absent
                THEN cache
                ELSE [cache EXCEPT !["checkout"][key[r]["checkout"]] = draft[r]]

(* Someone pushes an image or a commit.                                     *)
MoveUpstream(a) ==
  /\ upstream[a] < case.versions
  /\ upstream' = [upstream EXCEPT ![a] = @ + 1]
  /\ UNCHANGED <<cache, key, draft, stage>> /\ UnchangedElsewhere

CacheNext ==
  \/ \E r \in Runs :
       \/ \E a \in Artifacts : UseLocal(r, a) \/ Lookup(r, a)
       \/ BeginFetch(r) \/ FinishFetch(r) \/ FetchFails(r)
       \/ PublishImage(r) \/ PublishCheckout(r)
  \/ \E a \in Artifacts : MoveUpstream(a)

(* What a run found or built, once it is past a cache: complete; the commit *)
(* it asked for; an image no older than the digest it resolved, newer where  *)
(* the tag moved while enroot imported by tag.                               *)
PastImage(r)    == stage[r] \in {"checkout", "build", "reset"} \cup Body
PastCheckout(r) == stage[r] \in {"reset"} \cup Body

ArtifactsAreSound ==
  \A r \in Runs :
    /\ PastImage(r) /\ NeedsImage(r) => cache["image"][key[r]["image"]] >= key[r]["image"]
    /\ PastCheckout(r) /\ NeedsCheckout(r)
         => cache["checkout"][key[r]["checkout"]] = key[r]["checkout"]
=============================================================================
