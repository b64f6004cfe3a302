------------------------------- MODULE Anchor -------------------------------
(***************************************************************************)
(* Writing the addresses of an anchor: applyNode of worker/vz-sync.mjs     *)
(* lists the addresses of the hypervisor, reads the rows of the panel and  *)
(* plans what to attach and detach; writeVpsIps of the client makes the    *)
(* anchor agree with the list it is given.  Virtualizor's client reads the *)
(* whole configuration and sends it back with the list; SolusVM's lists    *)
(* again, detaches what is not wanted in one request and attaches one by   *)
(* one.  The hypervisor and its admins go on between any two requests, and *)
(* every request may fail.                                                 *)
(***************************************************************************)
EXTENDS Naturals, FiniteSets

CONSTANTS
    Drivers,            \* "virtualizor", "solusvm2"
    Size, Blocks,       \* addresses are 1..Size; the block of each
    Cap, NodeCap,       \* max_per_run of the anchor, and of its hypervisor
    MaxFaults, MaxEvents   \* bounds: requests that fail, acts of people

Addresses == 1..Size
Primary == 1

AnchorAssumption ==
    /\ {Size, Cap, NodeCap} \subseteq Nat \ {0} /\ {MaxFaults, MaxEvents} \subseteq Nat
    /\ Blocks \in [Addresses -> Nat]

VARIABLES
    driver,
    truth,     \* at the hypervisor: who has each address
    reserved,  \* the addresses SolusVM keeps from being given out
    disks,     \* the rest of the configuration of the anchor
    rows,      \* ip_addresses: released or wanted, attached by the panel
    job,       \* the run: step, listing, plan, what is left to do, how much of it failed
    wrote,     \* what the hypervisor has attached and detached in this run
    faults, events

vars == <<driver, truth, reserved, disks, rows, job, wrote, faults, events>>

Owners == {"free", "anchor", "customer"}
Nothing == [attached |-> {}, detached |-> {}]
Idle == [pc |-> "idle", listed |-> <<>>, attach |-> {}, detach |-> {}, left |-> {}, drop |-> {}, conf |-> 0, failed |-> 0]

\* Whoever has the addresses and whatever their rows say; the anchor has its own address.
Init ==
    /\ driver \in Drivers
    /\ truth \in [Addresses -> Owners] /\ truth[Primary] = "anchor"
    /\ reserved = {}
    /\ disks = 0
    /\ rows \in [Addresses -> [released : BOOLEAN, managed : BOOLEAN]]
    /\ job = Idle /\ wrote = Nothing
    /\ faults = 0 /\ events = 0

Fault == faults < MaxFaults /\ faults' = faults + 1
Sound == UNCHANGED faults

\* The owners in the blocks that could be read.
Read(bad) == [x \in {y \in Addresses : Blocks[y] \notin bad} |-> truth[x]]

\* A block that SolusVM does not list is left out of a listing that is called a
\* success; a page that Virtualizor does not give fails its listing.
Unread == IF driver = "solusvm2" THEN {{Blocks[x]} : x \in Addresses} ELSE {}

On(listed) == {x \in DOMAIN listed : listed[x] = "anchor"}

\* The first n, in the order of the listing, which is the hypervisor's.
Slices(n, set) == IF Cardinality(set) <= n THEN {set} ELSE {part \in SUBSET set : Cardinality(part) = n}

-----------------------------------------------------------------------------
(* applyNode: the listing, the rows, and the plan.                         *)

List ==
    /\ job.pc = "idle"
    /\ \/ Sound /\ job' = [Idle EXCEPT !.pc = "plan", !.listed = Read({})]
       \/ Fault /\ \E bad \in Unread : job' = [Idle EXCEPT !.pc = "plan", !.listed = Read(bad)]
    /\ wrote' = Nothing
    /\ UNCHANGED <<driver, truth, reserved, disks, rows, events>>

\* What is released and was attached by the panel goes; what is free and wanted
\* comes, at most max_per_run of it.
Plan ==
    /\ job.pc = "plan"
    /\ LET known == DOMAIN job.listed
           detach == {x \in known : job.listed[x] = "anchor" /\ rows[x].released /\ rows[x].managed}
       IN  \E attach \in Slices(Cap, {x \in known : job.listed[x] = "free" /\ ~rows[x].released}) :
              job' = IF attach = {} /\ detach = {} THEN Idle
                     ELSE [job EXCEPT !.pc = "open", !.attach = attach, !.detach = detach]
    /\ UNCHANGED <<driver, truth, reserved, disks, rows, wrote, faults, events>>

\* The list that the anchor is to have.
Want == (On(job.listed) \ job.detach) \union job.attach

\* The rows, when the client reports success.
RecordAttached ==
    /\ job.pc = "attached"
    /\ rows' = [x \in Addresses |-> IF x \in job.attach THEN [rows[x] EXCEPT !.managed = TRUE] ELSE rows[x]]
    /\ job' = [job EXCEPT !.pc = "detached"]
    /\ UNCHANGED <<driver, truth, reserved, disks, wrote, faults, events>>

RecordDetached ==
    /\ job.pc = "detached"
    /\ rows' = [x \in Addresses |-> IF x \in job.detach THEN [rows[x] EXCEPT !.managed = FALSE] ELSE rows[x]]
    /\ job' = Idle
    /\ UNCHANGED <<driver, truth, reserved, disks, wrote, faults, events>>

-----------------------------------------------------------------------------
(* writeVpsIps of Virtualizor: read everything, send everything back.      *)

ReadVps ==
    /\ driver = "virtualizor" /\ job.pc = "open"
    /\ \/ Sound /\ job' = [job EXCEPT !.pc = "send", !.conf = disks]
       \/ Fault /\ job' = Idle
    /\ UNCHANGED <<driver, truth, reserved, disks, rows, wrote, events>>

\* The anchor has what it is given; what somebody else has by now makes it refuse.
Replace ==
    /\ \A x \in Want : truth[x] # "customer"
    /\ truth' = [x \in Addresses |-> IF x \in Want THEN "anchor" ELSE IF truth[x] = "anchor" THEN "free" ELSE truth[x]]
    /\ wrote' = [attached |-> job.attach, detached |-> {x \in Addresses : truth[x] = "anchor"} \ Want]
    /\ disks' = job.conf

\* Mutant: any answer without an error is a success.
AnsweredWell(done) == TRUE

\* A page instead of "done" means that nothing was stored.
Confirmed(done) == done

WriteVps ==
    /\ driver = "virtualizor" /\ job.pc = "send"
    /\ \/ \E done \in BOOLEAN :
             /\ IF done THEN Replace /\ Sound ELSE Fault /\ UNCHANGED <<truth, wrote, disks>>
             /\ job' = IF Confirmed(done) THEN [job EXCEPT !.pc = "attached"] ELSE Idle
       \/ Fault /\ job' = Idle /\ (Replace \/ UNCHANGED <<truth, wrote, disks>>)
       \/ Sound /\ job' = Idle /\ (\E x \in Want : truth[x] = "customer") /\ UNCHANGED <<truth, wrote, disks>>
    /\ UNCHANGED <<driver, reserved, rows, events>>

-----------------------------------------------------------------------------
(* writeVpsIps of SolusVM: list again, detach, attach one by one.          *)

\* Mutant: the address of the server itself is like any other.
AllOfThem(set) == set

\* Without its own address the anchor would be off the network.
Detachable(set) == set \ {Primary}

\* What the anchor had comes before what is new to it.
Sent(on) == {part \in Slices(NodeCap, Want \ on) : part \intersect job.attach = {} \/ (Want \ on) \ job.attach \subseteq part}

ListAgain ==
    /\ driver = "solusvm2" /\ job.pc = "open"
    /\ \/ \E bad \in {{}} \union Unread :
             LET on == On(Read(bad))
             IN  /\ IF bad = {} THEN Sound ELSE Fault
                 /\ \E part \in Sent(on) :
                       job' = [job EXCEPT !.pc = "detach", !.drop = Detachable(on \ Want), !.left = part]
                 /\ wrote' = [wrote EXCEPT !.attached = on]
       \/ Fault /\ job' = Idle /\ UNCHANGED wrote
    /\ UNCHANGED <<driver, truth, reserved, disks, rows, events>>

\* Mutant: what fails is logged only.
NotCounted(j) == j

\* failed.push.
Failed(j) == [j EXCEPT !.failed = @ + 1]

\* One request, none when there is nothing to detach.
Detach ==
    /\ job.pc = "detach"
    /\ LET go == {x \in job.drop : truth[x] = "anchor"}
           next == [job EXCEPT !.pc = "attach"]
       IN  \/ /\ Sound /\ job' = next
              /\ truth' = [x \in Addresses |-> IF x \in go THEN "free" ELSE truth[x]]
              /\ wrote' = [wrote EXCEPT !.detached = go]
           \/ job.drop # {} /\ Fault /\ job' = Failed(next) /\ UNCHANGED <<truth, wrote>>
    /\ UNCHANGED <<driver, reserved, disks, rows, events>>

Onward(x) == [job EXCEPT !.left = @ \ {x}]

\* A reserved address is set free for use before it is attached.
Attach ==
    /\ job.pc = "attach"
    /\ \E x \in job.left :
          /\ x \in job.attach => job.left \subseteq job.attach
          /\ \/ /\ truth[x] = "free" /\ Sound
                /\ truth' = [truth EXCEPT ![x] = "anchor"]
                /\ reserved' = reserved \ {x}
                /\ wrote' = [wrote EXCEPT !.attached = @ \union {x}]
                /\ job' = Onward(x)
             \/ /\ truth[x] # "free" /\ Sound
                /\ job' = Failed(Onward(x))
                /\ UNCHANGED <<truth, reserved, wrote>>
             \/ /\ Fault /\ job' = Failed(Onward(x))
                /\ reserved' \in {reserved, reserved \ {x}}
                /\ UNCHANGED <<truth, wrote>>
    /\ UNCHANGED <<driver, disks, rows, events>>

\* Part of it failing is a failure.
Finish ==
    /\ job.pc = "attach" /\ job.left = {}
    /\ job' = IF job.failed = 0 THEN [job EXCEPT !.pc = "attached"] ELSE Idle
    /\ UNCHANGED <<driver, truth, reserved, disks, rows, wrote, faults, events>>

-----------------------------------------------------------------------------
(* People, at the hypervisor and in the panel, and restarts.               *)

Event == events < MaxEvents /\ events' = events + 1

\* An address is given to the anchor or a customer by hand, or taken back.
Move ==
    /\ Event
    /\ \E x \in Addresses \ {Primary}, o \in Owners :
          /\ (truth[x] = "free") # (o = "free")
          /\ truth' = [truth EXCEPT ![x] = o]
    /\ UNCHANGED <<driver, reserved, disks, rows, job, wrote, faults>>

Reserve ==
    /\ Event /\ driver = "solusvm2"
    /\ \E x \in Addresses \ reserved : truth[x] = "free" /\ reserved' = reserved \union {x}
    /\ UNCHANGED <<driver, truth, disks, rows, job, wrote, faults>>

ChangeDisks ==
    /\ Event
    /\ disks' = 1 - disks
    /\ UNCHANGED <<driver, truth, reserved, rows, job, wrote, faults>>

\* A verdict, or an admin.
Release ==
    /\ Event
    /\ \E x \in Addresses : rows' = [rows EXCEPT ![x].released = ~@]
    /\ UNCHANGED <<driver, truth, reserved, disks, job, wrote, faults>>

Crash ==
    /\ Event /\ job.pc # "idle"
    /\ job' = Idle
    /\ UNCHANGED <<driver, truth, reserved, disks, rows, wrote, faults>>

Job == List \/ Plan \/ ReadVps \/ WriteVps \/ ListAgain \/ Detach \/ Attach \/ Finish \/ RecordAttached \/ RecordDetached

ByHand == Move \/ Reserve \/ ChangeDisks \/ Release

Next == Job \/ ByHand \/ Crash

Spec == Init /\ [][Next]_vars

-----------------------------------------------------------------------------

\* "A partial failure must be seen, not reported as a success" (solusvm2.mjs
\* 474): an address is recorded as attached only if the hypervisor has accepted
\* it or it was seen on the anchor.  It holds where the hypervisor's limit leaves
\* room beside the anchor's for what people take from the anchor meanwhile
\* (Cap + MaxEvents <= NodeCap): the client cuts the list at its own limit, what
\* the anchor had comes first in the list, and nobody reads over_cap.
NothingCutOff == job.pc \in {"attached", "detached"} => job.attach \subseteq wrote.attached

\* Whatever fails and whoever comes between, SolusVM's anchor keeps its own
\* address, and what is recorded was done.
AnchorKept == (driver = "solusvm2" => truth[Primary] = "anchor") /\ NothingCutOff
=============================================================================
