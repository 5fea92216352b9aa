---------------------------- MODULE MCAcquisition ----------------------------
EXTENDS Acquisition

Exactly(url, name) == [kind |-> "exact", url |-> url, name |-> name]
Repository == [kind |-> "vcs", host |-> "h"]

\* Nothing to fetch, two files, two sources that collide on a name, a repeated
\* entry, more than is accepted, and one that cannot
\* be fetched.
MCDeclarations ==
  {<<Repository, [kind |-> "local"]>>,
   <<Exactly("u", "a"), Repository, Exactly("v", "b")>>,
   <<Exactly("u", "a"), Exactly("v", "a"), Exactly("u", "a")>>,
   <<Exactly("u", "a"), Exactly("w", "b"), Repository, [kind |-> "local"]>>,
   <<Exactly("u", "b"), [kind |-> "unusable"]>>}
MCNames == {"a", "b", "git"}
=============================================================================
