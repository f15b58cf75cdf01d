---------------------------- MODULE UrlValidator ----------------------------
(***************************************************************************)
(* main() of .github/scripts/metadata-validation/validate_metadata.py:     *)
(* list the files (the paths given, or find_metadata_files), validate      *)
(* every one in turn, report, and exit 1 if any is invalid.  The per-file  *)
(* check is UrlRules.                                                      *)
(***************************************************************************)
EXTENDS Naturals, Sequences, FiniteSets, SequencesExt, UrlRules

CONSTANTS
    Files,       \* metadata.json files
    PathInit,    \* relpath(file, base) a file may have
    ContentInit, \* what json.load of a file may give
    BaseInit,    \* --base-path arguments
    GivenInit,   \* the positional files arguments (<<>> when none)
    TestName,    \* the directory names "test" and "fixtures"
    FixturesName,
    None

VARIABLES
    path,        \* path[f]: relpath of f from the base path
    base,        \* --base-path
    listed,      \* metadata_files
    content,     \* content[f]: the parsed metadata.json
    todo,        \* metadata_files not yet validated, in order
    verdict,     \* verdict[f]: "ok" or the reason, None before f is checked
    validCount,  \* valid_count
    invalid,     \* invalid_files, in order
    exitCode     \* None while running, then main's return value

vars == <<path, base, listed, content, todo, verdict, validCount, invalid, exitCode>>

\* The path glob returns for f: os.path.join(base, "**/metadata.json").
GlobPath(b, f) == b \o <<"/">> \o path[f]

\* n in s for n = "/" + name + "/": the slash before may end the
\* assets/queries/ literal and the one after may start /metadata.json.
InPath(s, name) ==
    \E i \in 1..Len(s) - 2 :
        /\ s[i] \in {"/", Sentinel}
        /\ s[i + 1] = name
        /\ s[i + 2] \in {"/", MetaSuffix}

\* find_metadata_files (lines 35-44), given the order glob yields the files.
FindMetadataFiles(order, b, includeTests) ==
    IF includeTests THEN order
    ELSE SelectSeq(order, LAMBDA f : ~InPath(GlobPath(b, f), TestName)
                                     /\ ~InPath(GlobPath(b, f), FixturesName))

\* main, lines 204-208: the files given, or the ones found.
Init ==
    /\ path \in [Files -> PathInit]
    /\ content \in [Files -> ContentInit]
    /\ base \in BaseInit
    /\ \E given \in GivenInit, order \in SetToSeqs(Files), includeTests \in BOOLEAN :
          listed = IF given # <<>> THEN given
                   ELSE FindMetadataFiles(order, base, includeTests)
    /\ todo = listed
    /\ verdict = [f \in Files |-> None]
    /\ validCount = 0
    /\ invalid = <<>>
    /\ exitCode = None

\* One iteration of main's loop (lines 219-234).
CheckFile ==
    /\ todo # <<>>
    /\ LET f == Head(todo)
           v == ValidateMetadataFile(path[f], content[f])
       IN /\ verdict' = [verdict EXCEPT ![f] = v]
          /\ IF v = "ok"
               THEN validCount' = validCount + 1 /\ UNCHANGED invalid
               ELSE invalid' = Append(invalid, f) /\ UNCHANGED validCount
    /\ todo' = Tail(todo)
    /\ UNCHANGED <<path, base, listed, content, exitCode>>

\* "No metadata.json files found": main returns 0 (lines 210-212).
NothingFound ==
    /\ listed = <<>>
    /\ exitCode = None
    /\ exitCode' = 0
    /\ UNCHANGED <<path, base, listed, content, todo, verdict, validCount, invalid>>

\* The summary and the return value of main (lines 236-255).
Report ==
    /\ listed # <<>>
    /\ todo = <<>>
    /\ exitCode = None
    /\ exitCode' = IF invalid # <<>> THEN 1 ELSE 0
    /\ UNCHANGED <<path, base, listed, content, todo, verdict, validCount, invalid>>

Done ==
    /\ exitCode # None
    /\ UNCHANGED vars

Next == NothingFound \/ CheckFile \/ Report \/ Done

Spec == Init /\ [][Next]_vars /\ WF_vars(NothingFound \/ CheckFile \/ Report)

-----------------------------------------------------------------------------
(***************************************************************************)
(* Properties.                                                             *)
(***************************************************************************)

\* The rule path derived from a location is a plain path.
TypeOK ==
    /\ path \in [Files -> Str]
    /\ base \in Seq(Chars)
    /\ listed \in Seq(Files)
    /\ \A f \in Files : ExtractRulePath(path[f]) \in Seq(Chars)
    /\ todo \in Seq(Files)
    /\ verdict \in [Files -> {None, "ok", "empty", "prefix", "mismatch",
                              "case", "nopath", "json", "read"}]
    /\ validCount \in Nat
    /\ invalid \in Seq(Files)
    /\ exitCode \in {None, 0, 1}

\* The identity of a file (spec 4.1, inverse direction): the lowercased
\* path between assets/queries/ and /metadata.json.
Identity(f) == ExtractRulePath(path[f])

\* Canonical form (spec section 8): a record with a providerUrl and a
\* derivable identity p is valid iff its descriptionUrl is exactly
\* prefix + p.
CanonicalForm ==
    \A f \in Files :
        (/\ verdict[f] # None
         /\ content[f] \notin {Corrupt, Unreadable}
         /\ content[f].provider
         /\ Identity(f) # <<>>)
            => (verdict[f] = "ok" <=> content[f].url = <<Prefix>> \o Identity(f))

=============================================================================
