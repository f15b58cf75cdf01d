---------------------------- MODULE UpstreamSync ----------------------------
(***************************************************************************)
(* sync_tools/sync_metadata_from_upstream.py: fill one field (--field) of  *)
(* every metadata.json from the record at the same path in the upstream   *)
(* repository.                                                             *)
(*                                                                         *)
(* A JSON value is a model value standing for one class of Python values:  *)
(* Absent (key missing), Empty (""), Blank ("  "), Text1/Text2 (non-empty  *)
(* strings) and Zero (0, false or null: falsy, but str() of it is not     *)
(* blank).  A record is [field, other], where other stands for every key  *)
(* but --field; an upstream record holds only field, as the Datadog-      *)
(* specific keys do not exist upstream.  upstream[f] is what the server  *)
(* holds; each fetch returns it or, failing (404, other HTTP error,       *)
(* timeout, bad JSON), None, and a failure of one call says nothing of   *)
(* the next.                                                              *)
(* The process is not killed and json.dump does not fail half-way here:   *)
(* a write either happens or open() raises.                               *)
(***************************************************************************)
EXTENDS Naturals, Sequences, FiniteSets, SequencesExt

CONSTANTS
    Files,       \* the metadata.json files rglob finds
    Absent, Empty, Blank, Text1, Text2, Zero,
    LocalInit,   \* the contents a local file may start with
    UpInit,      \* what fetch_upstream_metadata may return for a path
    Names,       \* --platform / --provider arguments
    Mentions,    \* Mentions[f]: the names occurring in str(f).lower()
    Limits,      \* --limit arguments (None when not given)
    None,
    Unreadable,  \* a local file json.load raises on
    MaxRuns

StatKeys == {"total_checked", "empty_field", "updated", "not_found_upstream",
             "upstream_also_empty", "errors"}
NoStats  == [k \in StatKeys |-> 0]

VARIABLES
    rec,         \* rec[f]: the local file, a record or Unreadable
    upstream,    \* upstream[f]: the record the server holds at f's path
    pc,          \* "idle" | "loop" | "done"
    queue,       \* metadata_files still to process
    dry,         \* --dry-run
    stats,       \* the module-level stats dict
    runs,
    startRec,    \* rec when the current run started (history)
    batch,       \* the files the current run selected (history)
    fetched      \* fetched[f]: what this run's fetch of f returned (history)

vars == <<rec, upstream, pc, queue, dry, stats, runs, startRec, batch, fetched>>

(***************************************************************************)
(* Python semantics of the checks at lines 77-78 and 101-102.              *)
(***************************************************************************)
\* dict.get(field_name, "")
Get(v) == IF v = Absent THEN Empty ELSE v

\* bool(v): "", 0, false and None are falsy.
Truthy(v) == v \in {Blank, Text1, Text2}

\* str(v).strip() != "": str(0) = "0", str(False) = "False".
NonBlankStr(v) == v \notin {Empty, Blank}

\* `v and str(v).strip()`
IsPresent(v) == Truthy(v) /\ NonBlankStr(v)

LocalHasValue(r) == IsPresent(Get(r.field))

\* Mutant: the upstream value is written without the emptiness check.
UpstreamHasValueIgnored(u) == TRUE

UpstreamHasValue(u) == IsPresent(Get(u.field))

\* Mutant: the whole upstream record replaces the local one.
FillWholeRecord(r, u) == u

\* local_metadata[field_name] = upstream_value
Fill(r, u) == [r EXCEPT !.field = u.field]

\* stats["empty_field"] += 1
GapCounts(s) == [s EXCEPT !.empty_field = @ + 1]

\* Mutant: updated is counted before the write is attempted.
WriteCountsEager(s, ok) ==
    [s EXCEPT !.updated = @ + 1, !.errors = IF ok THEN @ ELSE @ + 1]

\* Lines 113-122: updated after a successful write, errors if open() raises.
WriteCounts(s, ok) ==
    IF ok THEN [s EXCEPT !.updated = @ + 1] ELSE [s EXCEPT !.errors = @ + 1]

\* metadata_files[:args.limit] under `if args.limit:` (lines 221-222).
PyHead(s, n) ==
    IF n = None \/ n = 0 THEN s
    ELSE SubSeq(s, 1, IF n >= 0 THEN IF n < Len(s) THEN n ELSE Len(s)
                      ELSE IF Len(s) + n > 0 THEN Len(s) + n ELSE 0)

\* fetch_upstream_metadata (lines 37-51): the upstream record, or None
\* when the call fails; every exception maps to None.
FetchUpstreamMetadata(f) == {upstream[f], None}

\* The --platform and --provider filters (lines 207-219): a substring test
\* of each given name on the lowercased path.
Selected(files, args) == SelectSeq(files, LAMBDA f : args \subseteq Mentions[f])

Init ==
    /\ rec \in [Files -> LocalInit]
    /\ upstream \in [Files -> UpInit]
    /\ pc = "idle"
    /\ queue = <<>>
    /\ dry = FALSE
    /\ stats = NoStats
    /\ runs = 0
    /\ startRec = rec
    /\ batch = {}
    /\ fetched = [f \in Files |-> None]

\* main up to the loop (lines 192-226): the files rglob yields, filtered
\* and cut to --limit.
StartRun ==
    /\ pc \in {"idle", "done"}
    /\ runs < MaxRuns
    /\ \E mode \in BOOLEAN, order \in SetToSeqs(Files),
          args \in SUBSET Names, limit \in Limits :
          /\ dry' = mode
          /\ queue' = PyHead(Selected(order, args), limit)
          /\ batch' = ToSet(queue')
    /\ pc' = "loop"
    /\ stats' = NoStats
    /\ startRec' = rec
    /\ runs' = runs + 1
    /\ fetched' = [f \in Files |-> None]
    /\ UNCHANGED <<rec, upstream>>

(***************************************************************************)
(* update_field_from_upstream (lines 54-126) for the head of the list.     *)
(***************************************************************************)
UpdateFieldFromUpstream ==
    /\ pc = "loop"
    /\ queue # <<>>
    /\ LET f  == Head(queue)
           r  == rec[f]
           s1 == [stats EXCEPT !.total_checked = @ + 1]
           s2 == GapCounts(s1)
       IN \/ /\ r = Unreadable
             /\ stats' = [s1 EXCEPT !.errors = @ + 1]
             /\ UNCHANGED <<rec, fetched>>
          \/ /\ r # Unreadable
             /\ LocalHasValue(r)
             /\ stats' = s1
             /\ UNCHANGED <<rec, fetched>>
          \/ /\ r # Unreadable
             /\ ~LocalHasValue(r)
             /\ \E u \in FetchUpstreamMetadata(f) :
                  /\ fetched' = [fetched EXCEPT ![f] = u]
                  /\ \/ /\ u = None
                        /\ stats' = [s2 EXCEPT !.not_found_upstream = @ + 1]
                        /\ UNCHANGED rec
                     \/ /\ u # None
                        /\ ~UpstreamHasValue(u)
                        /\ stats' = [s2 EXCEPT !.upstream_also_empty = @ + 1]
                        /\ UNCHANGED rec
                     \/ /\ u # None
                        /\ UpstreamHasValue(u)
                        /\ IF dry
                             THEN stats' = [s2 EXCEPT !.updated = @ + 1] /\ UNCHANGED rec
                             ELSE \E ok \in BOOLEAN :
                                    /\ rec' = IF ok THEN [rec EXCEPT ![f] = Fill(r, u)] ELSE rec
                                    /\ stats' = WriteCounts(s2, ok)
    /\ queue' = Tail(queue)
    /\ UNCHANGED <<upstream, pc, dry, runs, startRec, batch>>

\* The loop ends and the summary is printed (lines 232-254).
FinishRun ==
    /\ pc = "loop"
    /\ queue = <<>>
    /\ pc' = "done"
    /\ UNCHANGED <<rec, upstream, queue, dry, stats, runs, startRec, batch,
                   fetched>>

\* The script is not invoked again.
Terminated ==
    /\ pc \in {"idle", "done"}
    /\ runs = MaxRuns
    /\ UNCHANGED vars

Next == StartRun \/ UpdateFieldFromUpstream \/ FinishRun \/ Terminated

Spec == Init /\ [][Next]_vars

-----------------------------------------------------------------------------
(***************************************************************************)
(* Properties.                                                             *)
(***************************************************************************)
Values == {Absent, Empty, Blank, Text1, Text2, Zero}

\* A local record keeps its Datadog-specific keys.
TypeOK ==
    /\ rec \in [Files -> [field : Values, other : STRING] \cup {Unreadable}]
    /\ pc \in {"idle", "loop", "done"}
    /\ queue \in Seq(Files)
    /\ stats \in [StatKeys -> Nat]

\* Line 78's verdict on a local value, and line 102's on an upstream one:
\* missing, "", whitespace, 0 and false all count as empty.
EmptyAsCoded == {Absent, Empty, Blank, Zero}

Gap(f)      == startRec[f] # Unreadable /\ startRec[f].field \in EmptyAsCoded
Fillable(f) == Gap(f) /\ fetched[f] # None /\ fetched[f].field \notin EmptyAsCoded
Changed     == {f \in batch : rec[f] # startRec[f]}
Count(P(_)) == Cardinality({f \in batch : P(f)})

\* The printed summary is a faithful account of the run: every counter is
\* the number of selected files that met that outcome, given what each
\* of the run's fetches returned: a failed fetch is "not found upstream",
\* not an error, however the same path fared before.  A write that
\* raised is an error, not an update; a dry run writes nothing and counts
\* as updated every file a real run would fill.
SummaryIsTruthful ==
    pc = "done" =>
        /\ stats.total_checked = Cardinality(batch)
        /\ stats.empty_field = Count(Gap)
        /\ stats.not_found_upstream = Count(LAMBDA f : Gap(f) /\ fetched[f] = None)
        /\ stats.upstream_also_empty =
               Count(LAMBDA f : Gap(f) /\ fetched[f] # None /\ ~Fillable(f))
        /\ IF dry
             THEN /\ rec = startRec
                  /\ stats.updated = Count(Fillable)
                  /\ stats.errors = Count(LAMBDA f : startRec[f] = Unreadable)
             ELSE /\ Changed \subseteq {f \in batch : Fillable(f)}
                  /\ stats.updated = Cardinality(Changed)
                  /\ stats.errors = Count(LAMBDA f : startRec[f] = Unreadable)
                                     + Count(Fillable) - Cardinality(Changed)

\* The reconciler implements its contract (spec 4.5 and 8): only a gap is
\* filled, only with a non-empty upstream value, and no other key changes.
\* Non-empty, non-whitespace strings are never overwritten.
GF == INSTANCE GapFill WITH
        Protected <- {Text1, Text2},
        Blanks    <- {Absent, Empty, Blank},
        NoRecord  <- None,
        Opaque    <- {Unreadable}

GapFillSpec == GF!Spec

\* Spec 4.5: "a locally non-empty field (after trimming whitespace) is never
\* overwritten".  0 and false are not empty, yet line 78 tests truthiness.
PresentNeverOverwritten ==
    [][\A f \in Files :
          (rec[f] # Unreadable /\ rec[f].field \notin {Absent, Empty, Blank})
              => rec'[f] = rec[f]]_rec
=============================================================================
