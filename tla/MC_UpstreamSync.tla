-------------------------- MODULE MC_UpstreamSync --------------------------
EXTENDS UpstreamSync

CONSTANTS f1, f2

MCFiles == {f1, f2}

\* Local files: every class of --field value next to a Datadog-specific key,
\* or a file json.load raises on.
MCLocalInit ==
    {[field |-> v, other |-> "descriptionUrl"] : v \in {Absent, Empty, Blank, Text1, Zero}}
        \cup {Unreadable}

\* Upstream: no record (404), or a record whose field is empty,
\* a string, or 0.
MCUpInit == {None} \cup {[field |-> v] : v \in {Empty, Text2, Zero}}

MCNames    == {"aws"}
MCMentions == (f1 :> {"aws"}) @@ (f2 :> {})
MCLimits   == {None, 0, 1, -1}
=============================================================================
