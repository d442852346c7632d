---------------------------- MODULE SplitExecution ----------------------------
(***************************************************************************)
(* Whether an assignment of rows to partitions is what its split declares  *)
(* (adapters/ml/_split_execution.py).  Rows are numbers from 1; partitions *)
(* map names to disjoint, non-empty sets of rows; the context carries what *)
(* the kind of split needs besides.                                        *)
(***************************************************************************)
EXTENDS Integers, Sequences, FiniteSets, FiniteSetsExt

Rows(data) == 1 .. data.rows
Assigned(data) == UNION {data.partitions[p] : p \in DOMAIN data.partitions}
CompleteAssignment(data) == Assigned(data) = Rows(data)
NoContext == [none |-> TRUE]

\* A payload whose context is of the types its kind of split wants.
DataShape(data) ==
    /\ data.rows \in Nat
    /\ DOMAIN data.partitions \subseteq {"train", "validation", "test", "future_holdout"}
    /\ "timestamps" \in DOMAIN data.context => data.context.timestamps \in Seq(Int)
    /\ "folds" \in DOMAIN data.context =>
          data.context.folds \in
             Seq([train : SUBSET Nat, validation : SUBSET Nat,
                  inner : Seq([train : SUBSET Nat, validation : SUBSET Nat])])

IidExecutes(data) == data.context = NoContext /\ CompleteAssignment(data)

\* owner: the partition of each label
GroupExecutes(data, split) ==
    /\ DOMAIN data.context = {"labels"} /\ Len(data.context.labels) = data.rows
    /\ CompleteAssignment(data) /\ split.keyed
    /\ \E owner \in [{data.context.labels[r] : r \in Rows(data)} -> DOMAIN data.partitions] :
          \A p \in DOMAIN data.partitions :
             \A r \in data.partitions[p] : owner[data.context.labels[r]] = p

First(data, p) == Min({data.context.timestamps[r] : r \in data.partitions[p]})
Last(data, p) == Max({data.context.timestamps[r] : r \in data.partitions[p]})

\* Mutant of GapRows: whatever is left out counts as a gap.
LeftOutRows(data) == data.context.excluded

\* required_excluded: what lies between training and validation, and between
\* validation and test.
GapRows(data) ==
    LET between(p, q) == {r \in Rows(data) : /\ Last(data, p) < data.context.timestamps[r]
                                             /\ data.context.timestamps[r] < First(data, q)}
    IN  between("train", "validation") \cup between("validation", "test")

TimeSeriesExecutes(data, split) ==
    LET ts == data.context.timestamps
        distance(p, q) == First(data, q) - Last(data, p) - 1
    IN  /\ DOMAIN data.context = {"timestamps", "excluded"} /\ Len(ts) = data.rows
        /\ \A r \in Rows(data) \ {1} : ts[r] = ts[r - 1] + 1
        /\ Assigned(data) \cap data.context.excluded = {}
        /\ Assigned(data) \cup data.context.excluded = Rows(data)
        /\ split.gap >= 0 /\ split.embargo >= 0
        /\ {"train", "validation", "test"} \subseteq DOMAIN data.partitions
        /\ distance("train", "validation") >= 0 /\ distance("validation", "test") >= 0
        /\ "future_holdout" \in DOMAIN data.partitions => distance("test", "future_holdout") >= 0
        /\ data.context.excluded = GapRows(data)
        /\ distance("train", "validation") >= split.gap
        /\ distance("validation", "test") >= split.embargo

Parts(fold, rows) ==
    /\ fold.train # {} /\ fold.validation # {}
    /\ fold.train \cap fold.validation = {} /\ fold.train \cup fold.validation = rows

ValidatedOnce(folds, rows) ==
    \A r \in rows : Cardinality({n \in DOMAIN folds : r \in folds[n].validation}) = 1

NestedExecutes(data, split) ==
    LET development == data.partitions["train"] \cup data.partitions["validation"]
        folds == data.context.folds
    IN  /\ DOMAIN data.context = {"folds"}
        /\ split.outer >= 2 /\ split.inner >= 2 /\ Len(folds) = split.outer
        /\ {"train", "validation", "test"} \subseteq DOMAIN data.partitions
        /\ CompleteAssignment(data)
        /\ \A n \in DOMAIN folds :
              /\ Parts(folds[n], development) /\ Len(folds[n].inner) = split.inner
              /\ \A k \in DOMAIN folds[n].inner : Parts(folds[n].inner[k], folds[n].train)
              /\ ValidatedOnce(folds[n].inner, folds[n].train)
        /\ ValidatedOnce(folds, development)

\* validate_split_execution
SplitExecutes(data, split) ==
    \/ split.kind = "iid" /\ IidExecutes(data)
    \/ split.kind = "group" /\ GroupExecutes(data, split)
    \/ split.kind = "time_series" /\ TimeSeriesExecutes(data, split)
    \/ split.kind = "nested" /\ NestedExecutes(data, split)
-----------------------------------------------------------------------------
\* A split that executes keeps its rows apart as its kind promises: no group on
\* two sides; no later row before an earlier partition, the declared distances
\* kept, and no row left out for another reason; every development row
\* validated once on each level, by a fold that never saw it, and no protected
\* row in any fold.
RowsApart(data, split) ==
    LET part == data.partitions
        row(p) == part[p]
    IN  CASE split.kind = "iid" -> TRUE
          [] split.kind = "group" ->
                \A p, q \in DOMAIN part : p # q =>
                    \A r \in row(p), s \in row(q) : data.context.labels[r] # data.context.labels[s]
          [] split.kind = "time_series" ->
                LET ts == data.context.timestamps
                IN  /\ \A r \in row("train"), s \in row("validation") : ts[s] - ts[r] > split.gap
                    /\ \A r \in row("validation"), s \in row("test") : ts[s] - ts[r] > split.embargo
                    /\ \A p \in DOMAIN part \ {"future_holdout"} :
                          "future_holdout" \in DOMAIN part =>
                             \A r \in row(p), s \in row("future_holdout") : ts[r] < ts[s]
                    /\ \A x \in Rows(data) \ Assigned(data) :
                          /\ \E r \in row("train") : ts[r] < ts[x]
                          /\ \E s \in row("test") : ts[x] < ts[s]
                          /\ \A v \in row("validation") :
                                \A w \in row("validation") : ~(ts[v] < ts[x] /\ ts[x] < ts[w])
          [] split.kind = "nested" ->
                LET folds == data.context.folds
                    seen(f) == f.train \cup f.validation
                IN  \A r \in Rows(data) :
                      IF r \in row("train") \cup row("validation")
                      THEN \E n \in DOMAIN folds :
                             /\ r \in folds[n].validation \ folds[n].train
                             /\ \A k \in DOMAIN folds[n].inner : r \notin seen(folds[n].inner[k])
                             /\ \A m \in DOMAIN folds \ {n} :
                                   /\ r \in folds[m].train \ folds[m].validation
                                   /\ \E k \in DOMAIN folds[m].inner :
                                         /\ r \notin folds[m].inner[k].train
                                         /\ \A l \in DOMAIN folds[m].inner \ {k} :
                                               r \in folds[m].inner[l].train
                      ELSE \A n \in DOMAIN folds :
                             /\ r \notin seen(folds[n])
                             /\ \A k \in DOMAIN folds[n].inner : r \notin seen(folds[n].inner[k])
=============================================================================
