----------------------------- MODULE MCFsOverBus -----------------------------
(* Instances of FsOverBus for TLC: what the host sends.                    *)
EXTENDS FsOverBus

CONSTANTS f, g

Upload(name, data) ==
  [kind |-> "writefile", file |-> f, to |-> f, name |-> name, data |-> data]
Request(kind, from, to, size) ==
  [kind |-> kind, file |-> from, to |-> to, name |-> 0, data |-> size]

(* A short upload; one that a single packet may bring, too long for that;  *)
(* one that no packet brings whole after its name; one without a name.     *)
Uploads == {Upload(1, 1), Upload(1, 2), Upload(2, 3), Upload(0, 1)}
Pings   == {Request("heartbeat", f, f, n) : n \in {0, 2}}
Changes == {Request("delfile", f, f, 1), Request("duplfile", f, g, 2),
            Request("duplfile", g, f, 1), Request("duplfile", f, f, 1),
            Request("mvfile", f, g, 1), Request("execfile", f, f, 1)}
Requests == Uploads \cup Pings \cup Changes
Plain == {Upload(1, 1), Request("heartbeat", f, f, 2)}
=============================================================================
