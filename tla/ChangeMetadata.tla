--------------------------- MODULE ChangeMetadata ---------------------------
(***************************************************************************)
(* documentation/change_metadata.py run on one platform directory          *)
(* (input_dir = assets/queries/<platform>), composed with the URL rules of *)
(* validate_metadata.py that CI applies to the records it rewrites.        *)
(*                                                                         *)
(* main() decides from the FIRST subdirectory iterdir() yields whether the *)
(* platform has a provider layer, then calls process_rule_directory on    *)
(* every directory one or two levels down.  That function sets            *)
(* providerUrl (keeping an existing one) and descriptionUrl =             *)
(* prefix + lower(str(rule_path)) with "assets/queries/" removed.          *)
(*                                                                         *)
(* A directory name is a string over Chars; TestDir is the test/ directory *)
(* every rule directory holds (it has no metadata.json).                   *)
(***************************************************************************)
EXTENDS Naturals, Sequences, FiniteSets, SequencesExt, UrlRules

CONSTANTS
    TestDir,     \* a rule's test/ subdirectory
    LayoutInit,  \* the entries of input_dir, in iterdir() order
    Platforms,   \* names the platform directory may have
    InputPrefix, \* what precedes assets/queries/ in the input_dir argument
    MetaInit     \* the metadata.json contents a rule may start with

\* An entry of input_dir: a rule directory (has metadata.json), a provider
\* directory (holds rule directories), or a plain file.
RuleEntry(n)        == [kind |-> "rule", name |-> n]
ProviderEntry(n, r) == [kind |-> "provider", name |-> n, rules |-> r]
FileEntry(n)        == [kind |-> "file", name |-> n]

\* The subdirectories of an entry: a rule directory holds test/.
Kids(e) == IF e.kind = "provider" THEN e.rules ELSE <<TestDir>>

\* Directories holding a metadata.json, as paths below input_dir.
RulesOf(l) ==
    { <<l[i].name>> : i \in {j \in 1..Len(l) : l[j].kind = "rule"} }
    \cup UNION { { <<l[i].name, l[i].rules[k]>> : k \in 1..Len(l[i].rules) } :
                 i \in {j \in 1..Len(l) : l[j].kind = "provider"} }

\* str(Path(base) / n1 / n2 ...).
JoinPath(base, names) == FoldLeft(LAMBDA acc, n : acc \o <<"/">> \o n, base, names)

VARIABLES
    layout,      \* the entries of input_dir in iterdir() order
    platform,    \* the platform directory's name
    prefix,      \* InputPrefix chosen for this run
    meta,        \* meta[p]: the metadata.json of the rule directory at path p
    queue,       \* directories process_rule_directory is still to be called on
    rewritten,   \* the rule paths whose metadata.json was written
    pc

vars == <<layout, platform, prefix, meta, queue, rewritten, pc>>

InputDir == prefix \o <<Sentinel>> \o platform

(***************************************************************************)
(* main(), lines 74-102: the calls of process_rule_directory in order.     *)
(* The provider branch descends into every directory entry; the other     *)
(* branch calls it on every directory entry itself.                        *)
(***************************************************************************)
IsDir(e) == e.kind # "file"

HasProviderLayer(l) ==
    LET subdirs == SelectSeq(l, IsDir) IN subdirs[1].kind # "rule"

Calls(l) ==
    LET dirs == SelectSeq(l, IsDir) IN
    IF HasProviderLayer(l)
      THEN FlattenSeq([i \in 1..Len(dirs) |->
                          [k \in 1..Len(Kids(dirs[i])) |-> <<dirs[i].name, Kids(dirs[i])[k]>>]])
      ELSE [i \in 1..Len(dirs) |-> <<dirs[i].name>>]

\* Mutant: lower() is not applied to the rule path.
NewDescriptionUrlNoLower(rp) ==
    RemoveAll(<<Prefix>> \o JoinPath(InputDir, rp), Sentinel)

\* Mutant: "assets/queries/" is not removed from the URL.
NewDescriptionUrlKeepsSentinel(rp) ==
    <<Prefix>> \o Lower(JoinPath(InputDir, rp))

\* f"{prefix}{str(rule_path).lower()}".replace("assets/queries/", "")
NewDescriptionUrl(rp) ==
    RemoveAll(<<Prefix>> \o Lower(JoinPath(InputDir, rp)), Sentinel)

Init ==
    /\ layout \in LayoutInit
    /\ platform \in Platforms
    /\ prefix \in InputPrefix
    /\ meta \in [RulesOf(layout) -> MetaInit]
    /\ queue = <<>>
    /\ rewritten = {}
    /\ pc = "start"

\* main() up to the loops: with no subdirectory it returns at once.
Sniff ==
    /\ pc = "start"
    /\ IF SelectSeq(layout, IsDir) = <<>>
         THEN pc' = "done" /\ UNCHANGED queue
         ELSE pc' = "run" /\ queue' = Calls(layout)
    /\ UNCHANGED <<layout, platform, prefix, meta, rewritten>>

(***************************************************************************)
(* process_rule_directory, lines 42-65: skip a directory without           *)
(* metadata.json; a record that does not parse is reported and left as it *)
(* is; otherwise both URLs are set and the file is rewritten.              *)
(***************************************************************************)
ProcessRuleDirectory ==
    /\ pc = "run"
    /\ queue # <<>>
    /\ LET rp == Head(queue) IN
         IF rp \in DOMAIN meta /\ meta[rp] # Corrupt
           THEN /\ meta' = [meta EXCEPT ![rp] = [provider |-> TRUE,
                                                url |-> NewDescriptionUrl(rp)]]
                /\ rewritten' = rewritten \cup {rp}
           ELSE UNCHANGED <<meta, rewritten>>
    /\ queue' = Tail(queue)
    /\ UNCHANGED <<layout, platform, prefix, pc>>

Finish ==
    /\ pc = "run"
    /\ queue = <<>>
    /\ pc' = "done"
    /\ UNCHANGED <<layout, platform, prefix, meta, queue, rewritten>>

Done ==
    /\ pc = "done"
    /\ UNCHANGED vars

Next == Sniff \/ ProcessRuleDirectory \/ Finish \/ Done

Spec == Init /\ [][Next]_vars /\ WF_vars(Sniff \/ ProcessRuleDirectory \/ Finish)

-----------------------------------------------------------------------------
(***************************************************************************)
(* Properties.                                                             *)
(***************************************************************************)

\* A rewritten descriptionUrl is the prefix followed by a plain path.
TypeOK ==
    /\ pc \in {"start", "run", "done"}
    /\ queue \in Seq(Seq(Seq(Chars) \cup {TestDir}))
    /\ rewritten \subseteq DOMAIN meta
    /\ \A p \in DOMAIN meta :
          meta[p] = Corrupt \/ (meta[p].provider \in BOOLEAN /\ meta[p].url \in Str)
    /\ \A p \in rewritten :
          /\ meta[p].url[1] = Prefix
          /\ \A i \in 2..Len(meta[p].url) : meta[p].url[i] \in Chars

\* Where validate_metadata.py (run from the repository root) finds the
\* record of the rule at path p below input_dir.
Loc(p) == <<Sentinel>> \o JoinPath(platform, p) \o <<MetaSuffix>>

\* What validate_metadata.py says of the record at p.
Verdict(p) == ValidateMetadataFile(Loc(p), meta[p])

\* Every record change_metadata.py rewrites passes validate_metadata.py:
\* the URL one script builds from rule_path is the one the other derives
\* from the file's location, whatever the case of the directory names and
\* whether or not there is a provider layer.
RewrittenRecordsValidate ==
    \A p \in rewritten : Verdict(p) = "ok"

\* Spec section 9: after change_metadata.py has run on a platform, every
\* rule record under it that parses is valid; no rule directory is missed
\* because of the layout sniffed from one sample subdirectory.
AllRulesValidAfterRun ==
    pc = "done" => \A p \in DOMAIN meta : meta[p] # Corrupt => Verdict(p) = "ok"
=============================================================================
