----------------------------- MODULE MCSession ------------------------------
(* Session on two ids, a prompt of four and one of one after it.           *)
EXTENDS Session

MCId == {1, 2}
MCPrompt == <<1, 2, 1, 2>>
MCAgain == <<2>>

(* Nothing; a checkpoint of this prompt; a state saved in the middle of it *)
(* with an id pending; of another prompt; of another loop; cut short.      *)
At(ids, n, layout, parts) == [ids |-> ids, cached |-> n, layout |-> layout, parts |-> parts]
MCFound == {NoFile, At(<<1, 2, 1>>, 2, 1, 3), At(<<1, 1>>, 2, 1, 3), At(<<1>>, 1, 2, 3),
            At(<<1, 2>>, 2, 1, 2)}

Command(c, p, k, n, h, g, s) ==
  [chunk |-> c, pause_after |-> p, ckpt |-> k, spec_n |-> n, hybrid |-> h, gen |-> g, stop |-> s]
MCCommands ==
  {Command(1, 0, TRUE, 0, FALSE, 0, {}), Command(2, 1, TRUE, 0, FALSE, 1, {}),
   Command(2, 0, TRUE, 2, FALSE, 5, {2}), Command(4, 0, FALSE, 3, FALSE, 7, {}),
   Command(1, 1, TRUE, 2, TRUE, 6, {2}), Command(3, 0, FALSE, 1, TRUE, 4, {})}

(* Models that repeat themselves, alternate, and depend on both ids; loops *)
(* that every id leaves after one pass, and that one id runs twice or thrice.        *)
Table(a, b, c, e) ==
  LET pairs == (<<1, 1>> :> a) @@ (<<1, 2>> :> b) @@ (<<2, 1>> :> c) @@ (<<2, 2>> :> e)
  IN [x \in [1 .. Window -> MCId \cup {NoId}] |-> IF x \in DOMAIN pairs THEN pairs[x] ELSE 1]
MCWorlds ==
  {[next |-> t, depth |-> p, layout |-> 1] :
     t \in {Table(1, 1, 1, 1), Table(2, 1, 1, 2), Table(1, 1, 2, 1), Table(2, 2, 1, 1)},
     p \in {<<1, 1>>, <<2, 1>>, <<1, 3>>}}
=============================================================================
