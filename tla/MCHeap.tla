------------------------------- MODULE MCHeap -------------------------------
(* The instance of HeapRun that TLC checks. *)
EXTENDS HeapRun

i == Lin(1, 0, 0)

n == Lin(0, 1, 0)

MCCode ==
  {LoadStmt("p", Num(0)), LoadStmt("r", Num(1)), LoadStmt("r", i), LoadStmt("q", Num(0)),
   StoreStmt("p", Num(1), "x"), StoreStmt("r", Num(0), "x"), StoreStmt("r", i, "one"),
   StoreStmt("q", Num(0), "one"),
   MallocStmt("A", Elements(Num(2))), MallocStmt("A", OddBytes(Num(1))),
   MallocStmt("B", Elements(n)), MallocStmt("B", ZeroSize), CallocStmt("B", Elements(Num(2))),
   FreeStmt("r"),
   MemcpyStmt("r", Num(0), "p", Num(2)), MemcpyStmt("p", Num(0), "r", n),
   MemsetStmt("r", Num(0), n), MemsetStmt("p", Num(1), Num(1)),
   ArithStmt("r", Num(1)), ArithStmt("r", i), CopyStmt("p", "r"), AddrOfStmt,
   CallStmt("r", "one"), CallStmt("p", "x")}

(* q points into the array of p, or to an array of its own. *)
MCEntries ==
  {[i |-> 0, n |-> 1, q |-> <<"P", 1>>], [i |-> 1, n |-> 2, q |-> <<"Q", 0>>]}
=============================================================================
