------------------------------ MODULE MCReceipts ------------------------------
EXTENDS Receipts

CONSTANTS k1, k2

Doc(tool, until, id) ==
    [form |-> "grant", tool |-> tool, until |-> until, id |-> id,
     fit |-> TRUE, extra |-> FALSE]

MCDocs == {
    Doc("t1", NoBound, NoId),
    Doc("t1", 2, "a"),
    [Doc("t2", NoBound, "b") EXCEPT !.extra = TRUE],
    [Doc("t2", NoBound, "a") EXCEPT !.fit = FALSE]
}

MCFirstDoc == [doc |-> Doc("t1", NoBound, NoId), key |-> k1, id |-> "a"]

Key(id, key, status) ==
    [id |-> id, key |-> key, alg |-> "EdDSA", status |-> status,
     from |-> 0, until |-> NoBound, next |-> NoId, fine |-> TRUE]
Root(keys) ==
    [readable |-> TRUE, audience |-> GrantAudience, inside |-> FALSE, keys |-> keys]

MCFirstRoot == Root(<<Key("a", k1, "active")>>)

\* The key "a" on its way to "b"; and roots that do not load.
MCRootDocs == {
    MCFirstRoot,
    Root(<<[Key("a", k1, "transition") EXCEPT !.next = "b", !.until = 2],
           [Key("b", k2, "active") EXCEPT !.from = 1]>>),
    Root(<<[Key("a", k1, "retired") EXCEPT !.next = "b"], Key("b", k2, "active")>>),
    Root(<<Key("a", k1, "retired"), Key("a", k2, "active")>>)
}
===============================================================================
