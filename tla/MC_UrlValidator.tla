--------------------------- MODULE MC_UrlValidator ---------------------------
(***************************************************************************)
(* Two metadata.json files; every descriptionUrl of up to three symbols    *)
(* over the prefix, "a" and "A"; a rule directory in lower or mixed case,  *)
(* a rule's test/ fixture, or a relpath with no assets/queries/ in it      *)
(* (base path inside it).  The base path may itself lie below a test/      *)
(* directory.                                                              *)
(***************************************************************************)
EXTENDS UrlValidator, TLC

CONSTANTS f1, f2

MCChars == {"a", "A", "/", "test"}
MCLower == ("a" :> "a") @@ ("A" :> "a") @@ ("/" :> "/") @@ ("test" :> "test")
MCFiles == {f1, f2}

MCPaths ==
    { <<Sentinel, "a", MetaSuffix>>,
      <<Sentinel, "A", MetaSuffix>>,
      <<"a", MetaSuffix>>,
      <<Sentinel, "a", "/", "test", MetaSuffix>> }

\* The repository checked out at a, or at a/test (a CI work directory).
MCBases == { <<"a">>, <<"a", "/", "test">> }

\* No file argument, or one of the files.
MCGiven == {<<>>} \cup {<<f>> : f \in MCFiles}

MCUrls == BoundedSeq({Prefix, "a", "A"}, 3)

MCContents == [provider : BOOLEAN, url : MCUrls] \cup {Corrupt}

MCSymmetry == Permutations(MCFiles)
=============================================================================
