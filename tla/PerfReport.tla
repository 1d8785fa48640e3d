----------------------------- MODULE PerfReport -----------------------------
(***************************************************************************)
(* perf/analysis/cli: the artifacts of all workers under a perf directory    *)
(* merged into one timing tree and one table of resource rows.  An artifact   *)
(* is [rank, pid, timing, resources], as PerfStore publishes it.               *)
(***************************************************************************)
EXTENDS Naturals, Sequences, FiniteSets, FiniteSetsExt, SequencesExt

NotApplicable == 1000   \* "n/a", above any time
NoReport      == <<>>

(* main: --rank selects one rank, Everyone is --all-ranks.                  *)
Everyone == {}
Selected(artifacts, ranks) == {a \in artifacts : ranks = Everyone \/ a.rank \in ranks}

(* _merge_timing: per path, over the files that have it.                    *)
MergeTiming(artifacts) ==
  LET with(path) == {a \in artifacts : path \in DOMAIN a.timing}
  IN  [path \in UNION {DOMAIN a.timing : a \in artifacts} |->
         [count |-> MapThenSumSet(LAMBDA a : a.timing[path].count, with(path)),
          total |-> MapThenSumSet(LAMBDA a : a.timing[path].total, with(path)),
          max   |-> Max({a.timing[path].max : a \in with(path)})]]

Roots(tree)          == {path \in DOMAIN tree : Len(path) = 1}
Children(tree, path) == {p \in DOMAIN tree : Len(p) = Len(path) + 1 /\ IsPrefix(path, p)}
ChildrenTotal(tree, path) == MapThenSumSet(LAMBDA p : tree[p].total, Children(tree, path))
RootTotal(tree)      == MapThenSumSet(LAMBDA p : tree[p].total, Roots(tree))

(* _collect_subtree descends from the roots, so a scope is in the table if  *)
(* all scopes around it are.                                                 *)
TableOf(tree) == {path \in DOMAIN tree : \A n \in 1 .. Len(path) : SubSeq(path, 1, n) \in DOMAIN tree}

(* "Excl %", of the root total: n/a where children exceed their scope.      *)
NotStrict(tree, path) == ChildrenTotal(tree, path) > tree[path].total
Exclusive(tree, path) == tree[path].total - ChildrenTotal(tree, path)

(* _collect_resource_rows, _aggregate_resource_rows: one row per key, role, *)
(* rank and device.                                                          *)
Keyed(artifacts, family, key, rank) ==
  {a \in artifacts : a.rank = rank /\ key \in DOMAIN a.resources[family]}

(* _merge_metric: the mean is weighted with the counts of the rows, here a  *)
(* fraction <<sum, seen>>, and absent where nothing was seen.                *)
PooledMean(group, cell) ==
  LET present == {a \in group : cell[a].mean[2] > 0}
  IN  IF present = {} THEN <<0, 1>>
      ELSE <<MapThenSumSet(LAMBDA a : (cell[a].mean[1] * cell[a].count) \div cell[a].mean[2], present),
             MapThenSumSet(LAMBDA a : cell[a].count, present)>>

ResourceRow(artifacts, family, key, rank) ==
  LET group == Keyed(artifacts, family, key, rank)
      cell  == [a \in group |-> a.resources[family][key]]
  IN  [count |-> MapThenSumSet(LAMBDA a : cell[a].count, group), procs |-> Cardinality(group),
       mean  |-> PooledMean(group, cell),
       max   |-> Max({cell[a].max : a \in group})]

(* _print_cpu, _print_gpu: the rows of one kind of capture, or AnyCapture.         *)
AnyCapture == "any"
RowKeys(artifacts, family, capture) ==
  {<<key, a.rank>> : key \in {k \in UNION {DOMAIN b.resources[family] : b \in artifacts} :
                              capture \in {AnyCapture, k.capture}}, a \in artifacts}

ResourceTable(artifacts, family, capture) ==
  [row \in {k \in RowKeys(artifacts, family, capture) : Keyed(artifacts, family, k[1], k[2]) # {}} |->
     ResourceRow(artifacts, family, row[1], row[2])]

CpuTable(artifacts, capture) == ResourceTable(artifacts, "cpu", capture)
GpuTable(artifacts, capture) == ResourceTable(artifacts, "gpu", capture)

(* _print_timing: the tree's rows under their root total.                   *)
TimingTable(tree) ==
  [rows  |-> [path \in TableOf(tree) |->
                [count |-> tree[path].count, total |-> tree[path].total,
                 own   |-> IF NotStrict(tree, path) THEN NotApplicable ELSE Exclusive(tree, path)]],
   total |-> RootTotal(tree)]

(* main: nothing is printed where no artifact passes the filters.           *)
Report(directory, ranks, capture) ==
  LET artifacts == Selected(directory, ranks)
  IN  IF artifacts = {} THEN NoReport
      ELSE [timing |-> TimingTable(MergeTiming(artifacts)),
            cpu |-> CpuTable(artifacts, capture), gpu |-> GpuTable(artifacts, capture)]
=============================================================================
