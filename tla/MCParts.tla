------------------------------- MODULE MCParts -------------------------------
(* The parts with small state spaces: the serial port, and the exercises of   *)
(* labs 6 to 10.  A behaviour works with one of them; the page replacement     *)
(* and disk arm algorithms are given one input.                                *)
(* Banker: three processes that compete for two units of each of two kinds of  *)
(* resources: unsafe requests occur, and safe orders that run against the      *)
(* order of the process numbers.                                               *)
EXTENDS ContiguousAllocator, PageReplacement, DiskScheduling, SerialPort, ReadersWriters,
        Banker

CONSTANTS
    Pages, MaxRequests, Frames,         \* bounds of the page requests
    Tracks, MaxTracks                   \* bounds of the disk requests

VARIABLE input      \* the part at work, and what an algorithm is given

MCresource == [k \in Kinds |-> 2]

MCInit ==
    /\ Init /\ SerialInit /\ RWInit /\ BankInit
    /\ input = [part |-> "none"]

Work(part) == input.part \in {"none", part} /\ input' = [part |-> part]

Allocate ==
    Work("memory") /\ Next /\ UNCHANGED <<serialVars, rwVars, bankVars>>
PrintBytes ==
    Work("serial") /\ SerialNext /\ UNCHANGED <<vars, rwVars, bankVars>>
ReadAndWrite ==
    Work("readers") /\ RWNext /\ UNCHANGED <<vars, serialVars, bankVars>>
Bank ==
    Work("banker") /\ BankNext /\ UNCHANGED <<vars, serialVars, rwVars>>

\* Page names do not matter: a new page has the lowest number not yet used.
PageRequests ==
    {order \in UNION {[1 .. n -> 1 .. Pages] : n \in 0 .. MaxRequests} :
        \A i \in DOMAIN order :
            order[i] <= 1 + Cardinality({order[k] : k \in 1 .. i - 1})}

ReplacePages ==
    /\ input.part = "none"
    /\ \E order \in PageRequests, K \in Frames :
        input' = [part |-> "pages", order |-> order, K |-> K]
    /\ UNCHANGED <<vars, serialVars, rwVars, bankVars>>

MoveArm ==
    /\ input.part = "none"
    /\ \E n \in 2 .. MaxTracks :
       \E order \in [1 .. n -> 0 .. Tracks - 1], S \in 0 .. Tracks - 1, garbage \in {0, Tracks} :
        input' = [part |-> "disk", order |-> order, S |-> S, garbage |-> garbage]
    /\ UNCHANGED <<vars, serialVars, rwVars, bankVars>>

MCNext ==
    \/ Allocate \/ PrintBytes \/ ReadAndWrite \/ Bank
    \/ ReplacePages \/ MoveArm

MCSpec == MCInit /\ [][MCNext]_<<vars, serialVars, rwVars, bankVars, input>>

\* For every page request sequence, the policies of lab9/main.cpp against their
\* references: PoliciesMatchReference.
ReplacementCorrect == input.part = "pages" => PoliciesMatchReference(input.order, input.K)

\* For every set of disk requests, the algorithms of lab10/main.cpp against
\* their references: ArmMatchesReference.
ArmCorrect ==
    input.part = "disk" => ArmMatchesReference(input.order, input.S, Tracks, input.garbage)

=============================================================================
