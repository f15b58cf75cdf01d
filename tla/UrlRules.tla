------------------------------ MODULE UrlRules ------------------------------
(***************************************************************************)
(* The pure part of .github/scripts/metadata-validation/                  *)
(* validate_metadata.py: deriving a rule's path from its metadata.json    *)
(* location and checking a descriptionUrl against it.                      *)
(*                                                                         *)
(* Strings are sequences of characters.  The three literals the code      *)
(* searches for are single symbols: Prefix is the docs URL prefix          *)
(* "https://docs.datadoghq.com/.../iac_rules/", Sentinel is               *)
(* "assets/queries/" and MetaSuffix is "/metadata.json".  The other       *)
(* characters (Chars) cannot spell them, so str.replace, str.split and    *)
(* "in" on these literals act exactly as on the symbols.                   *)
(***************************************************************************)
EXTENDS Naturals, Sequences, SequencesExt

CONSTANTS
    Prefix, Sentinel, MetaSuffix,
    Chars,       \* path and URL characters other than the three literals
    LowerChar,   \* str.lower on one character of Chars
    Corrupt,     \* json.load raises JSONDecodeError
    Unreadable   \* open/read raises another exception

ASSUME LowerChar \in [Chars -> Chars]

Str == Seq(Chars \cup {Prefix, Sentinel, MetaSuffix})

\* str.lower(): the literals are lowercase already.
Lower(s) == [i \in 1..Len(s) |-> IF s[i] \in Chars THEN LowerChar[s[i]] ELSE s[i]]

\* s.replace(t, "") for a one-symbol literal t.
RemoveAll(s, t) == SelectSeq(s, LAMBDA c : c # t)

\* s.split(t)[1]: what lies between the first and the second t.
SplitSecond(s, t) ==
    LET i    == SelectInSeq(s, LAMBDA c : c = t)
        rest == SubSeq(s, i + 1, Len(s))
        j    == SelectInSeq(rest, LAMBDA c : c = t)
    IN IF j = 0 THEN rest ELSE SubSeq(rest, 1, j - 1)

\* Mutant: "/metadata.json" is not removed from the rule path.
ExtractRulePathKeepsSuffix(rel) ==
    IF \E i \in 1..Len(rel) : rel[i] = Sentinel
      THEN Lower(SplitSecond(rel, Sentinel))
      ELSE <<>>

(***************************************************************************)
(* extract_rule_path_from_file (lines 62-73), given relpath(file, base).   *)
(***************************************************************************)
ExtractRulePath(rel) ==
    IF \E i \in 1..Len(rel) : rel[i] = Sentinel
      THEN Lower(RemoveAll(SplitSecond(rel, Sentinel), MetaSuffix))
      ELSE <<>>

(***************************************************************************)
(* validate_description_url (lines 89-116): empty, prefix, path compared  *)
(* case-insensitively, then the path must already be lowercase.  The path *)
(* is description_url.replace(expected_prefix, "").                        *)
(***************************************************************************)
ValidateDescriptionUrl(url, expected) ==
    LET urlPath == RemoveAll(url, Prefix) IN
    CASE url = <<>>                            -> "empty"
      [] url[1] # Prefix                       -> "prefix"
      [] Lower(urlPath) # Lower(expected)      -> "mismatch"
      [] urlPath # Lower(urlPath)              -> "case"
      [] OTHER                                 -> "ok"

(***************************************************************************)
(* validate_metadata_file (lines 133-172).  A record is                    *)
(* [provider: "providerUrl" in metadata, url: metadata.get("descriptionUrl", "")].*)
(***************************************************************************)
ValidateMetadataFile(rel, content) ==
    CASE content = Corrupt                      -> "json"
      [] content = Unreadable                   -> "read"
      [] ~content.provider                      -> "ok"
      [] ExtractRulePath(rel) = <<>>            -> "nopath"
      [] OTHER -> ValidateDescriptionUrl(content.url, ExtractRulePath(rel))
=============================================================================
