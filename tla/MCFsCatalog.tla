---------------------------- MODULE MCFsCatalog -----------------------------
EXTENDS FsCatalog, TLC
MCInitial == {("a" :> File("v1", 1)) @@ ("b" :> File("v2", 2))}

\* Batches that touch a path twice or move one file over another.
One(kind) == [kind |-> kind, path |-> "a", to |-> "b", content |-> "v2"]
MCBatches ==
    {<<One("move")>>, <<One("update"), One("rename")>>, <<One("delete"), One("create")>>, <<>>}

\* These instances are among those the theorem on SymbolsNeverStale is about.
ASSUME MCSignaturesTell == SignaturesTell

ReaderSymmetry == Permutations(Readers)
=============================================================================
