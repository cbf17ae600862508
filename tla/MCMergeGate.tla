----------------------------- MODULE MCMergeGate -----------------------------
(* A CI job and a verify.start of the daemon on one receipts directory.    *)
EXTENDS MergeGate

Decl(n, k, c, r) == [name |-> n, kind |-> k, command |-> c, required |-> r]

\* The org's checks, both required; and a file whose stub carries the name the policy
\* asks for, the real check left as an advisory one.
TestAndLint == <<Decl("t", "test", "cargo", TRUE), Decl("l", "lint", "clippy", TRUE)>>
Stubbed == <<Decl("l", "lint", "true", TRUE), Decl("t", "test", "cargo", FALSE)>>

MCSpecs == {TestAndLint, Stubbed}
MCPlanes == {EmptyBar,
             [required |-> {"l"}, pin |-> <<TestAndLint>>, evidence |-> {"replay", "policy"}]}
MCRequests == {<<0>>, <<2>>}
MCFilters == {{"test"}}
=============================================================================
