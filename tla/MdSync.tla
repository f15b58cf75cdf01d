------------------------------- MODULE MdSync -------------------------------
(***************************************************************************)
(* The documentation -> record sync of                                      *)
(* .github/scripts/sync-copywriter-changes/sync_md_to_metadata.py.          *)
(*                                                                         *)
(* One run walks the markdown files in rglob order.  For each it reads the *)
(* file, extracts the front-matter fields, maps it to the rule's           *)
(* metadata.json and positive_expected_result.json, then rewrites each of  *)
(* the two records whose fields differ from the document.  Exceptions are *)
(* caught per file and counted; the run ends with an exit status.          *)
(*                                                                         *)
(* Data is abstracted: a document is the tuple the extractor returns (a    *)
(* field is a value of Values or None), a metadata record is a function    *)
(* from the synced fields to Values, an expected-result file is a sequence *)
(* of entries.  A file may also be Corrupt (json.load raises               *)
(* JSONDecodeError) or Unreadable (open or decode raises anything else).   *)
(* The two writes are separate steps so that a crash of the process can   *)
(* land between open(..., "w") truncating the file and json.dump ending.   *)
(***************************************************************************)
EXTENDS Naturals, Sequences, FiniteSets, SequencesExt, PathMapper

CONSTANTS
    Docs,        \* markdown files, one per rule (the identity is the file)
    Fields,      \* the synced fields this model keeps, a subset of MetaKeys
    Values,      \* the non-empty strings a field can hold
    Corrupt,     \* file content json.load rejects (JSONDecodeError)
    Unreadable,  \* file whose open/read raises something other than that
    DocInit,     \* the documents a behaviour may start with
    MetaInit,    \* the metadata.json contents a behaviour may start with
    PosInit,     \* the positive_expected_result.json contents likewise
    DocPaths,    \* Path.parts of the markdown files rglob may find
    HasMeta,     \* rule directories holding a metadata.json
    HasPos,      \* rule directories holding test/positive_expected_result.json
    CI,          \* the --ci flag
    MaxRuns,     \* bound: number of runs of the script
    MaxCrashes,  \* bound: number of runs killed before they end
    MaxWriteFails \* bound: number of writes that raise

\* The four fields update_metadata_json syncs and the two that
\* update_positive_expected_result_json syncs into every entry.
MetaKeys == {"queryName", "descriptionText", "severity", "category"}
PosKeys  == {"queryName", "severity"}
PosFields == Fields \cap PosKeys

ASSUME Fields \subseteq MetaKeys /\ PosFields # {}
ASSUME MaxRuns \in Nat /\ MaxCrashes \in Nat /\ MaxWriteFails \in Nat /\ CI \in BOOLEAN

Extracted == [Fields -> Values \cup {None}]
MetaRec   == [Fields -> Values]
Entry     == [PosFields -> Values]
\* What the loop makes of find_json_paths' result: both paths found, the
\* bare None (no "rules" segment or fewer than two segments after it), or
\* one of the two files is missing.
Targets   == {"ok", "unmappable", "nometa", "nopos"}
Phases    == {"idle", "loop", "meta", "metaWrite", "pos", "posWrite", "done"}
Change    == [doc: Docs, file: {"meta", "pos"}, idx: Nat, field: Fields,
              old: Values, new: Values]

VARIABLES
    doc,        \* doc[d]: what extract_informations_from_md returns, or Unreadable
    target,     \* target[d]: what find_json_paths returned for d, as Targets
    meta,       \* meta[d]: content of d's metadata.json
    pos,        \* pos[d]: content of d's positive_expected_result.json
    pc,         \* where the current run is
    queue,      \* md_files not yet processed, in iteration order
    cur,        \* the md_file being processed
    dry,        \* --dry-run of the current run
    processed, updated, errors,  \* the run's counters
    metaUpd,    \* metadata_updated for cur
    pending,    \* the content json.dump is writing
    changes,    \* the change lines printed so far in this run
    exitCode,   \* sys.exit status of the last finished run
    runs, crashes, writeFails,
    startFiles, \* history: <<meta, pos>> when the current run started
    prev        \* history: the last finished run (start, end, changes, ...)

files == <<meta, pos>>
vars == <<doc, target, meta, pos, pc, queue, cur, dry, processed, updated,
          errors, metaUpd, pending, changes, exitCode, runs, crashes,
          writeFails, startFiles, prev>>

Parsed(c) == c \notin {Corrupt, Unreadable}

(***************************************************************************)
(* update_metadata_json (lines 156-187): a field changes when the          *)
(* extracted value is truthy and differs from metadata.get(field).         *)
(***************************************************************************)
MetaChanges(d, r, x) ==
    { [doc |-> d, file |-> "meta", idx |-> 0, field |-> f,
       old |-> r[f], new |-> x[f]] : f \in {g \in Fields : x[g] # None /\ r[g] # x[g]} }

\* Mutant: the assignment of category is missing although the change is
\* reported (a field dropped from the write-back).
MetaApplyDropsCategory(r, x) ==
    [f \in Fields |-> IF x[f] # None /\ f # "category" THEN x[f] ELSE r[f]]

MetaApply(r, x) == [f \in Fields |-> IF x[f] # None THEN x[f] ELSE r[f]]

(***************************************************************************)
(* update_positive_expected_result_json (lines 229-244): the same rule for *)
(* queryName and severity, applied to every entry independently.          *)
(***************************************************************************)
PosChanges(d, s, x) ==
    LET diff == {p \in (1..Len(s)) \X PosFields :
                    x[p[2]] # None /\ s[p[1]][p[2]] # x[p[2]]}
    IN { [doc |-> d, file |-> "pos", idx |-> p[1], field |-> p[2],
          old |-> s[p[1]][p[2]], new |-> x[p[2]]] : p \in diff }

\* Mutant: only the first expected result is corrected.
PosApplyFirstOnly(s, x) ==
    [i \in 1..Len(s) |-> IF i = 1
                           THEN [f \in PosFields |-> IF x[f] # None THEN x[f] ELSE s[i][f]]
                           ELSE s[i]]

PosApply(s, x) ==
    [i \in 1..Len(s) |-> [f \in PosFields |-> IF x[f] # None THEN x[f] ELSE s[i][f]]]

\* Mutant: the write is not guarded by "if not dry_run".
WriteNeededIgnoringDry(ch) == ch # {}

\* "if changes: ... if not dry_run: open(path, 'w')" (lines 189-197, 246-256).
WriteNeeded(ch) == ch # {} /\ ~dry

\* Mutant: the error count is passed to sys.exit as the status.
ExitStatusRaw(errs, upd) == errs

\* main (lines 445-452): errors first, then the --ci check on updated.
ExitStatus(errs, upd) ==
    IF errs > 0 THEN 1 ELSE IF CI /\ upd = 0 THEN 1 ELSE 0

\* Lines 310-322: unpacking the bare None raises; a missing file is a skip.
Outcome(r) ==
    CASE r = None    -> "unmappable"
      [] r[1] = None -> "nometa"
      [] r[2] = None -> "nopos"
      [] OTHER       -> "ok"

Mapped(p) == RulesIdx(p) # 0 /\ Len(RelativeParts(p)) >= 2

\* Distinct files, each mapped to a rule directory of its own: records
\* are kept per document.
OwnRecords(where) ==
    /\ IsInjective(where)
    /\ \A d1, d2 \in Docs :
          (d1 # d2 /\ Mapped(where[d1]) /\ Mapped(where[d2]))
              => RuleDir(where[d1]) # RuleDir(where[d2])

Init ==
    /\ doc \in [Docs -> DocInit]
    /\ \E where \in [Docs -> DocPaths] :
          /\ OwnRecords(where)
          /\ target = [d \in Docs |-> Outcome(FindJsonPaths(where[d], HasMeta, HasPos))]
    /\ meta \in [Docs -> MetaInit]
    /\ pos \in [Docs -> PosInit]
    /\ pc = "idle"
    /\ queue = <<>>
    /\ cur = None
    /\ dry = FALSE
    /\ processed = 0 /\ updated = 0 /\ errors = 0
    /\ metaUpd = FALSE
    /\ pending = None
    /\ changes = {}
    /\ exitCode = None
    /\ runs = 0 /\ crashes = 0 /\ writeFails = 0
    /\ startFiles = files
    /\ prev = None

(***************************************************************************)
(* main + the head of sync_md_to_metadata: a new run over all md files in  *)
(* the order rglob yields them, with or without --dry-run.                 *)
(***************************************************************************)
StartRun ==
    /\ pc \in {"idle", "done"}
    /\ runs < MaxRuns
    /\ \E mode \in BOOLEAN, order \in SetToSeqs(Docs) :
          /\ dry' = mode
          /\ queue' = order
    /\ prev' = IF pc = "done"
                 THEN [dry |-> dry, start |-> startFiles, end |-> files,
                       changes |-> changes, updated |-> updated, errors |-> errors]
                 ELSE prev
    /\ pc' = "loop"
    /\ processed' = 0 /\ updated' = 0 /\ errors' = 0
    /\ changes' = {}
    /\ startFiles' = files
    /\ runs' = runs + 1
    /\ UNCHANGED <<doc, target, meta, pos, cur, metaUpd, pending, exitCode, crashes,
                   writeFails>>

(***************************************************************************)
(* Loop body up to the updates (lines 293-322): read the md file, extract, *)
(* find the json paths.  A read error, and the unpacking of the bare None  *)
(* find_json_paths returns for an unmappable path, raise and are counted   *)
(* as errors; a missing metadata or expected-result file is a skip.        *)
(***************************************************************************)
TakeDoc ==
    /\ pc = "loop"
    /\ queue # <<>>
    /\ LET d == Head(queue) IN
         /\ cur' = d
         /\ processed' = processed + 1
         /\ queue' = Tail(queue)
         /\ \/ /\ doc[d] = Unreadable \/ target[d] = "unmappable"
               /\ errors' = errors + 1
               /\ pc' = "loop"
            \/ /\ doc[d] # Unreadable
               /\ target[d] \in {"nometa", "nopos"}
               /\ UNCHANGED <<errors, pc>>
            \/ /\ doc[d] # Unreadable
               /\ target[d] = "ok"
               /\ pc' = "meta"
               /\ UNCHANGED errors
    /\ UNCHANGED <<doc, target, meta, pos, dry, updated, metaUpd, pending,
                   changes, exitCode, runs, crashes, writeFails, startFiles, prev>>

(***************************************************************************)
(* update_metadata_json (lines 149-201).  JSONDecodeError is caught and    *)
(* returns False; any other read error propagates to the loop's except.   *)
(* With changes and no --dry-run the file is opened for writing.           *)
(***************************************************************************)
UpdateMetadata ==
    /\ pc = "meta"
    /\ LET r == meta[cur] IN
         \/ /\ r = Corrupt
            /\ metaUpd' = FALSE
            /\ pc' = "pos"
            /\ UNCHANGED <<errors, changes, pending>>
         \/ /\ r = Unreadable
            /\ errors' = errors + 1
            /\ pc' = "loop"
            /\ UNCHANGED <<metaUpd, changes, pending>>
         \/ /\ Parsed(r)
            /\ LET ch == MetaChanges(cur, r, doc[cur]) IN
                 /\ changes' = changes \cup ch
                 /\ metaUpd' = (ch # {})
                 /\ IF WriteNeeded(ch)
                      THEN /\ pc' = "metaWrite"
                           /\ pending' = MetaApply(r, doc[cur])
                      ELSE /\ pc' = "pos"
                           /\ UNCHANGED pending
            /\ UNCHANGED errors
    /\ UNCHANGED <<doc, target, meta, pos, queue, cur, dry, processed, updated,
                   exitCode, runs, crashes, writeFails, startFiles, prev>>

\* json.dump returns and the with block closes the file (lines 195-197).
FinishMetaWrite ==
    /\ pc = "metaWrite"
    /\ meta' = [meta EXCEPT ![cur] = pending]
    /\ pending' = None
    /\ pc' = "pos"
    /\ UNCHANGED <<doc, target, pos, queue, cur, dry, processed, updated,
                   errors, metaUpd, changes, exitCode, runs, crashes,
                   writeFails, startFiles, prev>>

(***************************************************************************)
(* update_positive_expected_result_json (lines 222-260) and the updated    *)
(* count of the loop (lines 337-338).                                      *)
(***************************************************************************)
UpdatePositive ==
    /\ pc = "pos"
    /\ LET s == pos[cur] IN
         \/ /\ s = Corrupt
            /\ updated' = IF metaUpd THEN updated + 1 ELSE updated
            /\ pc' = "loop"
            /\ UNCHANGED <<errors, changes, pending>>
         \/ /\ s = Unreadable
            /\ errors' = errors + 1
            /\ pc' = "loop"
            /\ UNCHANGED <<updated, changes, pending>>
         \/ /\ Parsed(s)
            /\ LET ch == PosChanges(cur, s, doc[cur]) IN
                 /\ changes' = changes \cup ch
                 /\ IF WriteNeeded(ch)
                      THEN /\ pc' = "posWrite"
                           /\ pending' = PosApply(s, doc[cur])
                           /\ UNCHANGED updated
                      ELSE /\ pc' = "loop"
                           /\ updated' = IF metaUpd \/ ch # {}
                                           THEN updated + 1 ELSE updated
                           /\ UNCHANGED pending
            /\ UNCHANGED errors
    /\ UNCHANGED <<doc, target, meta, pos, queue, cur, dry, processed,
                   metaUpd, exitCode, runs, crashes, writeFails, startFiles, prev>>

FinishPosWrite ==
    /\ pc = "posWrite"
    /\ pos' = [pos EXCEPT ![cur] = pending]
    /\ pending' = None
    /\ updated' = updated + 1
    /\ pc' = "loop"
    /\ UNCHANGED <<doc, target, meta, queue, cur, dry, processed, errors,
                   metaUpd, changes, exitCode, runs, crashes, writeFails, startFiles, prev>>

(***************************************************************************)
(* open(path, "w") or json.dump raises (permission, disk full, ...) in     *)
(* either write: the exception leaves the update function, skipping the    *)
(* rest of the document's work (for the metadata: the expected-result      *)
(* update; for both: "updated += 1"), and the loop's except counts it      *)
(* (lines 340-342).  If open raised the file is as it was; if json.dump    *)
(* raised it is truncated to a prefix json.load rejects.                   *)
(***************************************************************************)
WriteFails ==
    /\ pc \in {"metaWrite", "posWrite"}
    /\ writeFails < MaxWriteFails
    /\ \E left \in {"untouched", "torn"} :
          LET after(c) == IF left = "torn" THEN Corrupt ELSE c IN
          /\ meta' = IF pc = "metaWrite" THEN [meta EXCEPT ![cur] = after(@)] ELSE meta
          /\ pos'  = IF pc = "posWrite"  THEN [pos  EXCEPT ![cur] = after(@)] ELSE pos
    /\ pending' = None
    /\ errors' = errors + 1
    /\ writeFails' = writeFails + 1
    /\ pc' = "loop"
    /\ UNCHANGED <<doc, target, queue, cur, dry, processed, updated, metaUpd,
                   changes, exitCode, runs, crashes, startFiles, prev>>

\* End of the loop and main's exit status (lines 344, 445-452).
FinishRun ==
    /\ pc = "loop"
    /\ queue = <<>>
    /\ exitCode' = ExitStatus(errors, updated)
    /\ pc' = "done"
    /\ UNCHANGED <<doc, target, meta, pos, queue, cur, dry, processed, updated,
                   errors, metaUpd, pending, changes, runs, crashes,
                   writeFails, startFiles, prev>>

(***************************************************************************)
(* The process is killed (job cancelled, Ctrl-C: KeyboardInterrupt is not  *)
(* an Exception and escapes every except).  A file between open("w") and  *)
(* the end of json.dump is left truncated.                                 *)
(***************************************************************************)
Crash ==
    /\ pc \notin {"idle", "done"}
    /\ crashes < MaxCrashes
    /\ meta' = IF pc = "metaWrite" THEN [meta EXCEPT ![cur] = Corrupt] ELSE meta
    /\ pos'  = IF pc = "posWrite"  THEN [pos  EXCEPT ![cur] = Corrupt] ELSE pos
    /\ pc' = "idle"
    /\ queue' = <<>>
    /\ pending' = None
    /\ crashes' = crashes + 1
    /\ UNCHANGED <<doc, target, cur, dry, processed, updated, errors, metaUpd,
                   changes, exitCode, runs, writeFails, startFiles, prev>>

\* No run is left to start: the script is not invoked again.
Terminated ==
    /\ pc \in {"idle", "done"}
    /\ runs = MaxRuns
    /\ UNCHANGED vars

Step ==
    \/ TakeDoc \/ UpdateMetadata \/ FinishMetaWrite
    \/ UpdatePositive \/ FinishPosWrite \/ FinishRun

Next == StartRun \/ Step \/ WriteFails \/ Crash \/ Terminated

Spec == Init /\ [][Next]_vars /\ WF_vars(Step)

-----------------------------------------------------------------------------
(***************************************************************************)
(* Properties.                                                             *)
(***************************************************************************)

TypeOK ==
    /\ doc \in [Docs -> Extracted \cup {Unreadable}]
    /\ target \in [Docs -> Targets]
    /\ meta \in [Docs -> MetaRec \cup {Corrupt, Unreadable}]
    /\ pos \in [Docs -> Seq(Entry) \cup {Corrupt, Unreadable}]
    /\ pc \in Phases
    /\ queue \in Seq(Docs) /\ cur \in Docs \cup {None} /\ dry \in BOOLEAN
    /\ {processed, updated, errors} \subseteq Nat
    /\ changes \subseteq Change
    /\ exitCode \in {None, 0, 1}

\* d's records carry every field the document states, in the metadata and
\* in each expected result.
Synced(d) ==
    /\ meta[d] \in MetaRec
    /\ \A f \in Fields : doc[d][f] # None => meta[d][f] = doc[d][f]
    /\ pos[d] \in Seq(Entry)
    /\ \A i \in 1..Len(pos[d]), f \in PosFields :
          doc[d][f] # None => pos[d][i][f] = doc[d][f]

\* Idempotence (spec section 8): a run that starts from the files an
\* error-free real run of sync_md_to_metadata left behind prints no change
\* and counts no updated file, whatever iteration order either run used,
\* and whatever records were corrupt and skipped.  (A real run with an
\* error, a failed write among them, leaves work for the next run.)
Idempotence ==
    (pc = "done" /\ prev # None /\ ~prev.dry /\ prev.errors = 0
        /\ prev.end = startFiles)
        => changes = {} /\ updated = 0

\* Dry-run fidelity (spec sections 4.3, 8): a --dry-run run writes nothing,
\* and a real run from the files the dry run saw does what the dry run
\* printed up to the writes that raise: with no more errors than the dry
\* run it prints exactly the dry run's changes and updated count, and
\* otherwise a part of them (a failed metadata write skips the
\* expected-result update, any failed write skips "updated += 1").
DryRunFidelity ==
    (pc = "done" /\ prev # None /\ prev.dry)
        => /\ prev.end = prev.start
           /\ (~dry /\ prev.start = startFiles)
                 => /\ changes \subseteq prev.changes
                    /\ updated <= prev.updated
                    /\ errors = prev.errors
                          => changes = prev.changes /\ updated = prev.updated

\* A real run that ends without errors has synced every document whose two
\* records it could parse: the metadata and every expected result carry
\* the document's fields (update_metadata_json and
\* update_positive_expected_result_json both ran and both wrote).
SyncPostcondition ==
    (pc = "done" /\ ~dry /\ errors = 0)
        => \A d \in Docs :
              (target[d] = "ok" /\ Parsed(startFiles[1][d]) /\ Parsed(startFiles[2][d]))
                  => Synced(d)

\* Spec section 6: the exit code is non-zero if a record failed to read or
\* parse.  So a real run that exits 0 has synced every mapped document.
ExitZeroMeansSynced ==
    (pc = "done" /\ ~dry /\ exitCode = 0)
        => \A d \in Docs : target[d] = "ok" => Synced(d)

\* Spec sections 4.1 and 7: an unmappable documentation path is a normal
\* skip, not an error; only a file that cannot be read is.  So a run counts
\* one error per document that is unreadable or whose record is.
Faulty(d) ==
    \/ doc[d] = Unreadable
    \/ target[d] = "ok" /\ Unreadable \in {startFiles[1][d], startFiles[2][d]}

ErrorsAreFaults ==
    pc = "done" => errors = Cardinality({d \in Docs : Faulty(d)})

\* Spec section 5: a crash leaves every file either fully updated or
\* untouched.  Checked from initial files that all parse, so a Corrupt file
\* can only be one the script left behind.
NoTornRecord ==
    \A d \in Docs : meta[d] # Corrupt /\ pos[d] # Corrupt

=============================================================================
