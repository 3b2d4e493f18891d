-------------------------------- MODULE MCNice --------------------------------
(***************************************************************************)
(* Requests and memory for model checking NiceSys.  The bases make lbuf      *)
(* start on an even word, rowsum and sbuf on odd ones (so both bus halves    *)
(* are used), rowsum and sbuf overlap the row that lbuf reads, and sbuf's     *)
(* burst wrap around the address space.                                     *)
(***************************************************************************)
EXTENDS NiceSys

R(op, a, b) == [op |-> op, rs1 |-> a, rs2 |-> b]

MCMem == [a \in Addr |-> (a + 1) % WordMod]

MCMemReq == {R("lbuf", 0, 0), R("rowsum", 1, 0), R("sbuf", 3, 0)}
MCOneCycReq == {R("crowbuf", 0, 0), R("add", 1, 1), R("wsetup", 5, 0),
                R("rsetup", 0, 0), R("illegal", 0, 0)}
MCPipeReq == {R("pipeadd", 1, 0), R("pipeadd", 1, 1)}

MCReq == MCMemReq \cup MCOneCycReq \cup MCPipeReq
MCReqLive == MCMemReq \cup {R("pipeadd", 1, 0), R("add", 1, 1), R("crowbuf", 0, 0)}
===============================================================================
