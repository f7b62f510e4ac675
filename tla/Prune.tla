-------------------------------- MODULE Prune --------------------------------
(***************************************************************************)
(* Which snapshots of a group a prune removes.  compute_prune_info walks   *)
(* the snapshots from the newest to the oldest once per keep option and    *)
(* marks them; what has a mark is passed over by the options that follow.  *)
(*                                                                         *)
(* A snapshot is known by its backup time; the period it belongs to, an    *)
(* hour, a day, a week, is an interval of times of the option's length.    *)
(* The variables hold one case: the list, the options and the result.      *)
(***************************************************************************)
EXTENDS Integers, Sequences, FiniteSets
Seqs == INSTANCE SequencesExt

CONSTANTS
    PruneTime,   \* backup times
    PruneNow,    \* the time of the prune
    MaxKeep,     \* bound on a keep option
    Periods      \* lengths of the periods of the options, the first is keep-last

ASSUME PruneAssumption ==
    /\ PruneTime \subseteq Nat /\ PruneNow \in Nat /\ MaxKeep \in Nat
    /\ \A p \in Periods : p \in Seq(Nat \ {0}) /\ p[1] = 1

VARIABLES
    snaps,    \* the list: [fin, prot] for each backup time
    keep,     \* the keep options; none is zero
    period,   \* the lengths of their periods
    marks     \* the result, empty before

pruneVars == <<snaps, keep, period, marks>>

-----------------------------------------------------------------------------

(* BackupInfo::sort_list: newest first *)
SortList(list) == Seqs!SetToSortSeq(DOMAIN list, LAMBDA t, u : t > u)

(* The mark an unfinished snapshot, and one from the future, gets. *)
RemoveIncompleteAndIgnoreFuture(list, now) ==
    LET Past == {t \in DOMAIN list : t <= now}
        Marked == {t \in DOMAIN list : t > now \/ ~list[t].fin}
    IN  [t \in Marked |->
            IF t > now THEN "future"
            ELSE IF \E u \in Past : u > t THEN "remove" ELSE "partial"]

Id(length, t) == t \div length

Marking(mark, t, m) == [u \in DOMAIN mark \cup {t} |-> IF u = t THEN m ELSE mark[u]]

(* Mutated form: one more is kept. *)
MarkSelectionsOneMore(mark, list, n, length) ==
    LET already == {Id(length, t) : t \in {u \in DOMAIN mark : mark[u] = "keep"}}
        Visit(acc, t) ==
            LET id == Id(length, t) IN
            IF acc.end \/ t \in DOMAIN acc.mark THEN acc
            ELSE IF list[t].prot THEN [acc EXCEPT !.mark = Marking(@, t, "protected")]
            ELSE IF id \in already THEN acc
            ELSE IF id \in acc.included THEN [acc EXCEPT !.mark = Marking(@, t, "remove")]
            ELSE IF Cardinality(acc.included) > n THEN [acc EXCEPT !.end = TRUE]
            ELSE [acc EXCEPT !.included = @ \cup {id}, !.mark = Marking(@, t, "keep")]
    IN  Seqs!FoldLeft(Visit, [mark |-> mark, included |-> {}, end |-> FALSE], SortList(list)).mark

(* One keep option: the newest of each of the first n periods that no      *)
(* snapshot was kept for before.                                           *)
MarkSelections(mark, list, n, length) ==
    LET already == {Id(length, t) : t \in {u \in DOMAIN mark : mark[u] = "keep"}}
        Visit(acc, t) ==
            LET id == Id(length, t) IN
            IF acc.end \/ t \in DOMAIN acc.mark THEN acc
            ELSE IF list[t].prot THEN [acc EXCEPT !.mark = Marking(@, t, "protected")]
            ELSE IF id \in already THEN acc
            ELSE IF id \in acc.included THEN [acc EXCEPT !.mark = Marking(@, t, "remove")]
            ELSE IF Cardinality(acc.included) >= n THEN [acc EXCEPT !.end = TRUE]
            ELSE [acc EXCEPT !.included = @ \cup {id}, !.mark = Marking(@, t, "keep")]
    IN  Seqs!FoldLeft(Visit, [mark |-> mark, included |-> {}, end |-> FALSE], SortList(list)).mark

(* options[i] = 0 is an option that is not given. *)
ComputePruneInfo(list, now, options, lengths) ==
    LET Option(mark, i) ==
            IF options[i] = 0 THEN mark ELSE MarkSelections(mark, list, options[i], lengths[i])
        mark == Seqs!FoldLeft(Option, RemoveIncompleteAndIgnoreFuture(list, now), [i \in DOMAIN options |-> i])
    IN  [t \in DOMAIN list |->
            IF list[t].prot THEN "protected" ELSE IF t \in DOMAIN mark THEN mark[t] ELSE "remove"]

KeepsSomething(options) == \E i \in DOMAIN options : options[i] > 0

(* prune_datastore, prune: what is removed *)
PruneVictims(list, now, options, lengths) ==
    {t \in DOMAIN list : KeepsSomething(options) /\ ComputePruneInfo(list, now, options, lengths)[t] = "remove"}

-----------------------------------------------------------------------------

PruneInit ==
    /\ \E T \in SUBSET PruneTime : snaps \in [T -> [fin : BOOLEAN, prot : BOOLEAN]]
    /\ period \in Periods
    /\ keep \in [DOMAIN period -> 0 .. MaxKeep]
    /\ marks = << >>

Mark ==
    /\ marks = << >> /\ snaps # << >>
    /\ marks' = ComputePruneInfo(snaps, PruneNow, keep, period)
    /\ UNCHANGED <<snaps, keep, period>>

PruneNext == Mark

PruneSpec == PruneInit /\ [][PruneNext]_pruneVars

-----------------------------------------------------------------------------
(* Properties *)

PruneTypeOK ==
    /\ period \in Periods /\ keep \in [DOMAIN period -> 0 .. MaxKeep]
    /\ DOMAIN snaps \subseteq PruneTime
    /\ DOMAIN marks \in {{}, DOMAIN snaps}

Done == marks # << >>
Eligible == {t \in DOMAIN snaps : snaps[t].fin /\ ~snaps[t].prot /\ t <= PruneNow}
Kept == {t \in Eligible : marks[t] = "keep"}

(* The first n of a set of numbers, from the greatest. *)
Newest(n, S) == {x \in S : Cardinality({y \in S : y > x}) < n}
Nested == \A i, j \in DOMAIN period : i < j => period[j] % period[i] = 0

(* What the options promise: protected and future snapshots stay, and the  *)
(* newest one that has not finished, as long as none that is newer has.    *)
(* No more than the options ask for is kept.  keep-last keeps the newest   *)
(* snapshots, and every other option one of each of its newest periods.    *)
(* The last holds for options whose periods lie within each other: a week  *)
(* at the turn of a month may cost the month its snapshot.                 *)
PruneRight ==
    PruneTypeOK /\ (Done =>
        /\ \A t \in DOMAIN snaps : snaps[t].prot => marks[t] = "protected"
        /\ \A t \in DOMAIN snaps : t > PruneNow => marks[t] # "remove"
        /\ \A t \in DOMAIN snaps :
               ~snaps[t].fin /\ ~snaps[t].prot /\ t <= PruneNow =>
                   (marks[t] = "partial") = ~\E u \in DOMAIN snaps : u > t /\ u <= PruneNow
        /\ Cardinality(Kept) <= Seqs!FoldLeft(+, 0, keep)
        /\ Newest(keep[1], Eligible) \subseteq Kept
        /\ Nested => \A i \in DOMAIN period :
               Newest(keep[i], {Id(period[i], t) : t \in Eligible}) \subseteq {Id(period[i], t) : t \in Kept})
=============================================================================
