------------------------- MODULE MC_FieldExtractor -------------------------
EXTENDS FieldExtractor

\* Every document that opens with the Description heading, followed by up
\* to seven tokens (a second heading among them).
MCDocs == {<<D>> \o w : w \in BoundedSeq({NL, SP, X, H, D}, 7)}

\* Every document that opens with the Description heading, followed by up
\* to eight tokens of text.
MCLongDocs == {<<D>> \o w : w \in BoundedSeq({NL, SP, X, H}, 8)}

\* Every front matter of up to six tokens over the keys, a quote, a space
\* and text.  NL acts as SP does in these searches (both \s, neither a
\* quote), so SP stands for both.
MCFrontMatters == BoundedSeq({KT, KS, KC, Q, SP, X}, 6)

\* Every document holding a Description section in the template, whose
\* prose is up to seven tokens of text: lines, blank lines, runs of three
\* or more newlines to collapse, leading and trailing whitespace to strip,
\* and "\n## " inside the prose.
MCTemplated == {Template(b) : b \in BoundedSeq({NL, SP, X, H}, 7)}

MCAllDocs == MCDocs \cup MCFrontMatters \cup MCTemplated
=============================================================================
