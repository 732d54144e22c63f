--------------------------- MODULE MCMaintenance ---------------------------
(* PATH, root, holds .ditto (top), with another .ditto in it (nest), and     *)
(* tests/.ditto (sub).  Links may lead from nest and sub to far, and from    *)
(* tests to away, where far is away/.ditto.  The lock has a target for each  *)
(* of sub and far, by an old path that is a link, and one in a database.     *)
EXTENDS Maintenance, TLC

CONSTANTS root, top, nest, tests_, sub, away, far, old, db, s3,
          j, k, tSub, tFar, tDb, e1, e2, e3, e4

MCAbove ==
    root :> {} @@ top :> {root} @@ nest :> {root, top} @@ tests_ :> {root}
    @@ sub :> {root, tests_} @@ away :> {} @@ far :> {away} @@ old :> {}
MCLead ==
    [a \in {nest, tests_, sub, old} |->
        [d \in Dirs |-> IF a = tests_ /\ d = a THEN away ELSE far]]
MCDirOf == tSub :> sub @@ tFar :> old
MCStoreOf == tDb :> db
MCTargetOf == e1 :> tFar @@ e2 :> tFar @@ e3 :> tDb @@ e4 :> tSub
MCKeyOf == e1 :> j @@ e2 :> k @@ e3 :> j @@ e4 :> j

MCSnapshots == {<<top, j>>, <<sub, j>>, <<far, j>>, <<far, k>>, <<db, j>>, <<s3, j>>}

\* A layout has the directories ds, links at ls, and what is in cs closed.
Layout(ds, ls, cs) ==
    [kind |-> [d \in Dirs |-> IF d \in ds THEN "dir" ELSE IF d \in ls THEN "link" ELSE "none"],
     closed |-> cs]
MCLayouts ==
    {Layout({root, top, nest, tests_, away, far}, {sub, old}, {}),
     Layout({root, tests_, sub, away, far}, {old}, {}),
     Layout({root, top, tests_, sub}, {}, {}),
     Layout({root, top, tests_, sub}, {nest}, {tests_}),
     Layout({root, away, far}, {tests_, old}, {}),
     Layout({root}, {}, {})}
MCLocks == {{e1, e2, e3, e4}}

\* A tree where tests is closed, and no lock that would lead to what is in it.
MCClosed == {Layout({root, top, tests_, sub}, {}, {tests_})}
MCUnlocked == {{}}

\* j is a case of the test that is selected; the name of k's only starts like it.
MCNodeId == j :> <<"m", "::", "t", "[", "1", "]">> @@ k :> <<"m", "::", "t", "u">>
MCSelections == {{}, {<<"m", "::", "t">>}}
MCEmpty == {<<top, j>>}

============================================================================
