-------------------------- MODULE MC_ChangeMetadata --------------------------
(***************************************************************************)
(* Platform directories with rules directly under them, with a provider    *)
(* layer, with a plain file among the entries, and mixed, in either        *)
(* iterdir() order; directory names in lower and mixed case.               *)
(***************************************************************************)
EXTENDS ChangeMetadata, TLC

a == <<"a">>
A == <<"A">>

MCChars == {"a", "A", "/"}
MCLower == ("a" :> "a") @@ ("A" :> "a") @@ ("/" :> "/")

MCLayouts ==
    { << RuleEntry(a), RuleEntry(A) >>,
      << ProviderEntry(a, <<a>>), ProviderEntry(A, <<A, a>>) >>,
      << FileEntry(a), ProviderEntry(A, <<a>>) >>,
      << FileEntry(a) >>,
      << RuleEntry(a), ProviderEntry(A, <<a>>) >>,
      << ProviderEntry(A, <<a>>), RuleEntry(a) >> }

MCPlatforms == {a, A}

\* input_dir given relative to the repository root, as CI runs it.
MCInputPrefix == { <<>> }

MCMetaInit == [provider : BOOLEAN, url : {<<>>, <<Prefix, "a">>}] \cup {Corrupt}
=============================================================================
