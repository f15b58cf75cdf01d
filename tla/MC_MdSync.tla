------------------------------ MODULE MC_MdSync ------------------------------
(***************************************************************************)
(* Instantiation of MdSync for TLC: two documents, the fields queryName    *)
(* (synced into both records) and category (metadata only), two values.   *)
(***************************************************************************)
EXTENDS MdSync, TLC

CONSTANTS d1, d2

MCDocs == {d1, d2}
MCFields == {"queryName", "category"}
MCValues == {"a", "b"}

\* Documents: both fields stated, one missing from the front matter, or
\* the file cannot be read.
MCDocInit ==
    { [queryName |-> "a", category |-> "a"],
      [queryName |-> None, category |-> "a"],
      [queryName |-> "a", category |-> None],
      Unreadable }

\* Records: already in sync with "a", out of sync in both fields, or a file
\* that does not parse / cannot be read.
MCMetaInit ==
    { [queryName |-> "a", category |-> "a"],
      [queryName |-> "b", category |-> "b"],
      Corrupt, Unreadable }

\* Expected results: one entry out of sync, two entries of which only
\* the first is in sync, or a file that does not parse / cannot be read.
MCPosInit ==
    { << [queryName |-> "b"] >>,
      << [queryName |-> "a"], [queryName |-> "b"] >>,
      Corrupt, Unreadable }

\* Only files that parse: a Corrupt file is then one the script wrote.
MCMetaClean == MCMetaInit \ {Corrupt}
MCPosClean == MCPosInit \ {Corrupt}

\* Path.parts of the markdown files below documentation/rules: rules
\* a/x, b/x (both files exist), a/y (no expected-result file), a/z (no
\* record), and x.md, y.md directly under rules/ (unmappable).
MCRules == <<"rules">>

MCDoc(segs) == << <<"documentation">>, MCRules >> \o segs

MCDocPaths ==
    { MCDoc(<< <<"a">>, <<"x", Md>> >>), MCDoc(<< <<"b">>, <<"x", Md>> >>),
      MCDoc(<< <<"a">>, <<"y", Md>> >>), MCDoc(<< <<"a">>, <<"z", Md>> >>),
      MCDoc(<< <<"x", Md>> >>), MCDoc(<< <<"y", Md>> >>) }

MCHasPos  == { << <<"a">>, <<"x">> >>, << <<"b">>, <<"x">> >> }
MCHasMeta == MCHasPos \cup { << <<"a">>, <<"y">> >> }

MCSymmetry == Permutations(MCDocs)
=============================================================================
