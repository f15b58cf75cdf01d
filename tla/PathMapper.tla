----------------------------- MODULE PathMapper -----------------------------
(***************************************************************************)
(* find_json_paths (.github/scripts/sync-copywriter-changes/               *)
(* sync_md_to_metadata.py): from a markdown file to the rule directory    *)
(* below assets_queries_dir that holds its metadata.json and              *)
(* test/positive_expected_result.json.                                     *)
(*                                                                         *)
(* A path is Path.parts, a sequence of segments; a segment is a sequence  *)
(* of symbols.  Md stands for the three characters ".md" and RulesSeg for *)
(* the segment "rules".  A rule directory is named by its segments below  *)
(* assets_queries_dir, and the files that exist are given as the sets of  *)
(* rule directories holding each of the two files.                        *)
(***************************************************************************)
EXTENDS Naturals, Sequences, SequencesExt

CONSTANTS Md, RulesSeg, None

\* parts.index("rules"): the first "rules" segment, 0 when there is none.
RulesIdx(parts) == SelectInSeq(parts, LAMBDA s : s = RulesSeg)

\* relative_parts = parts[rules_idx + 1:]
RelativeParts(parts) == SubSeq(parts, RulesIdx(parts) + 1, Len(parts))

\* relative_parts[-1].replace(".md", ""): every ".md", not only the suffix.
RuleName(seg) == Remove(seg, Md)

\* assets_queries_dir / Path(*relative_parts[:-1]) / rule_name
RuleDir(parts) ==
    LET rel == RelativeParts(parts) IN Front(rel) \o <<RuleName(Last(rel))>>

\* The bare None of the two early returns, or the pair of paths, each
\* None when the file does not exist.
FindJsonPaths(parts, hasMeta, hasPos) ==
    IF RulesIdx(parts) = 0 \/ Len(RelativeParts(parts)) < 2 THEN None
    ELSE LET dir == RuleDir(parts) IN
         << IF dir \in hasMeta THEN dir ELSE None,
            IF dir \in hasPos THEN dir ELSE None >>
=============================================================================
