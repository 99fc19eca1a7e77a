------------------------------ MODULE MCAdmission ------------------------------
(* Admission for TLC: two replicas; pods of two containers, the first with *)
(* every shape of CPU resources that the API server lets through and       *)
(* memory or none, the second with few; and limit ranges in either order.  *)
EXTENDS Admission

CONSTANTS r1, r2

MCReplica == {r1, r2}

Cpu(n) == [r \in {"cpu"} |-> n]
Mem(n) == [r \in {"memory"} |-> n]

Container(name, requests, limits) == [name |-> name, requests |-> requests, limits |-> limits]

(* No request; a request; request and limit equal; a limit above it; the   *)
(* request zero, with a limit.  Where there is a limit the API server has  *)
(* filled in the request.                                                  *)
CpuShapes == {<<NoList, NoList>>, <<Cpu(500), NoList>>, <<Cpu(500), Cpu(500)>>,
              <<Cpu(300), Cpu(2000)>>, <<Cpu(0), Cpu(1000)>>}

MemoryShapes == {<<NoList, NoList>>, <<Mem(64), NoList>>, <<Mem(64), Mem(128)>>}

First == {Container("c1", s[1] @@ m[1], s[2] @@ m[2]) : s \in CpuShapes, m \in MemoryShapes}

Second == {Container("c2", s[1], s[2]) :
              s \in {<<NoList, NoList>>, <<Mem(64), Mem(64)>>}}

MCTemplate == [annotated : BOOLEAN, containers : {<<a, b>> : a \in First, b \in Second}]

DefaultOf(list) == [NoItem EXCEPT !.default = list]

Wide == [default |-> Cpu(1000), min |-> Cpu(100), max |-> Cpu(4000) @@ Mem(512)]
Narrow == [default |-> NoList, min |-> Cpu(200) @@ Mem(32), max |-> Cpu(3000) @@ Mem(256)]

MCLimitItems == {<<>>, <<DefaultOf(Cpu(400))>>, <<Wide, Narrow>>, <<Narrow, Wide>>}

MCTarget == {0, 250, 1000}

=============================================================================
