------------------------------- MODULE Import -------------------------------
(***************************************************************************)
(* The hourly import of what a hypervisor says of its addresses            *)
(* (discoverNode in worker/vz-sync.mjs with the clients                    *)
(* worker/virtualizor.mjs and worker/solusvm2.mjs) beside the admins who   *)
(* edit the same rows (app/api/ips).  Lists are read first and written     *)
(* afterwards, in seven statements one after the other.                    *)
(*                                                                         *)
(* One address of one node with one pool of addresses and one anchor is    *)
(* followed.  Addresses have Width bits.                                   *)
(***************************************************************************)
EXTENDS Integers

CONSTANTS
    Width,          \* 32 in the code
    Shortest,       \* the shortest prefix that is believed (8)
    Pools,          \* gateway and netmask of the pool, and whether it is a range
    Drivers,        \* "virtualizor", "solusvm2"
    Rows,           \* addresses of the pool; the one followed is the last of them
    Asked, Given,   \* rows asked for in a page, and rows that SolusVM gives at most
    MaxEvents

ImportAssumption ==
    /\ Width \in Nat \ {0} /\ Shortest \in 0..Width
    /\ Pools \subseteq [gateway : 0..2^Width-1, mask : 0..2^Width-1, range : BOOLEAN]
    /\ Drivers \subseteq {"virtualizor", "solusvm2"} /\ MaxEvents \in Nat
    /\ {Rows, Asked, Given} \subseteq Nat \ {0} /\ Given <= Asked

VARIABLES
    driver, pool,
    truth,     \* the address at the hypervisor: registered, its VPS, locked, reserved
    anchored,  \* whether the block is tied to the anchor (ip_subnets.anchor_id)
    block,     \* the block stored for the pool, or NoBlock
    row,       \* the row of ip_addresses
    disc,      \* the import in progress: its step and what it has read
    events

vars == <<driver, pool, truth, anchored, block, row, disc, events>>

None == "none"
Anchor == "anchor"
Customer == "vps"
NoBlock == [net |-> 0, prefix |-> 0-1]
NoRow == [known |-> FALSE, linked |-> FALSE, vps |-> None, status |-> "free", watch |-> FALSE, locked |-> FALSE,
          bind |-> FALSE, managed |-> FALSE, customer |-> None, manual |-> FALSE, block |-> NoBlock]
NothingRead == [there |-> FALSE, vps |-> None, locked |-> FALSE, reserved |-> FALSE, names |-> FALSE]
Idle == [pc |-> "idle", read |-> NothingRead]

Init ==
    /\ driver \in Drivers /\ pool \in Pools
    /\ truth = [there |-> TRUE, vps |-> None, locked |-> FALSE, reserved |-> FALSE]
    /\ anchored = FALSE
    /\ block = NoBlock /\ row = NoRow /\ disc = Idle /\ events = 0

-----------------------------------------------------------------------------
(* The hypervisor and the admins.                                          *)

Event == events < MaxEvents /\ events' = events + 1

\* The address is given to a VPS, taken back, locked, reserved, removed.
HypervisorEvent ==
    /\ Event
    /\ \/ \E v \in {None, Customer, Anchor} \ {truth.vps} : truth' = [truth EXCEPT !.vps = v, !.there = TRUE]
       \/ driver = "virtualizor" /\ truth' = [truth EXCEPT !.locked = ~@]
       \/ driver = "solusvm2" /\ truth' = [truth EXCEPT !.reserved = ~@]
       \/ truth.there /\ truth' = [there |-> FALSE, vps |-> None, locked |-> FALSE, reserved |-> FALSE]
    /\ UNCHANGED <<driver, pool, anchored, block, row, disc>>

Edit(r) == Event /\ row' = r /\ UNCHANGED <<driver, pool, truth, anchored, block, disc>>

\* PATCH /api/ips/[id]: a customer that is typed in is marked as such, and
\* clearing the field takes the mark away.
TypeCustomer == row.known /\ \E c \in {"typed", None} : Edit([row EXCEPT !.customer = c, !.manual = c # None])

\* PATCH /api/ips/[id]: the watch is turned on or off by hand.
SetWatch == row.known /\ Edit([row EXCEPT !.watch = ~@])

\* POST /api/ips with a customer: of a row that exists the status is taken
\* anew; the customer is not marked as typed.
Add == Edit([row EXCEPT !.known = TRUE, !.status = "free", !.customer = "typed"])

\* DELETE /api/ips/[id], and that of the whole block with force.
Remove == row.known /\ Edit(NoRow)

\* The block is tied to the anchor (PATCH /api/subnets).
TieBlock ==
    /\ Event /\ block # NoBlock /\ anchored' = ~anchored
    /\ UNCHANGED <<driver, pool, truth, block, row, disc>>

-----------------------------------------------------------------------------
(* The lists of the two clients.                                           *)

Read == disc.read
Listed == Read.there /\ ~Read.locked
Free == Read.vps = None

\* The rows in a page: SolusVM gives fewer than it is asked for.
Batch(page) ==
    LET size == IF driver = "solusvm2" THEN Given ELSE Asked
        left == Rows - (page - 1) * size
    IN  IF left <= 0 THEN 0 ELSE IF left < size THEN left ELSE size

\* Mutant: a page that is not full is the last one, whoever gives it.
ShortPage(page) == Batch(page) < Asked

\* The page after which no other is asked for.
LastPage(page) == IF driver = "virtualizor" THEN Batch(page) < Asked ELSE Batch(page) = 0

\* paged: whether every row of the list was fetched.
AllFetched ==
    LET Rest[page \in 1..Rows+1] == Batch(page) + (IF LastPage(page) THEN 0 ELSE Rest[page + 1])
    IN  Rest[1] = Rows

\* listIps of Virtualizor: what is registered, with its lock.
VirtualizorRow(fetched) ==
    [there |-> truth.there /\ fetched, vps |-> truth.vps, locked |-> truth.locked, reserved |-> FALSE]

\* listIps of SolusVM: nothing counts as locked; of a block that is a range the
\* addresses that are not among those registered are free ones.
SolusRow(fetched) ==
    IF truth.there /\ fetched THEN [truth EXCEPT !.locked = FALSE]
    ELSE [there |-> pool.range, vps |-> None, locked |-> FALSE, reserved |-> FALSE]

Row(fetched) == IF driver = "virtualizor" THEN VirtualizorRow(fetched) ELSE SolusRow(fetched)

Begin(read, names) ==
    disc' = [pc |-> "blocks", read |-> [there |-> read.there, vps |-> read.vps, locked |-> read.locked,
                                       reserved |-> read.reserved, names |-> names]]

\* The lists are read.  Those of the VPSs and users may fail, then the names
\* are missing; those of SolusVM name the owner themselves.
ReadLists ==
    /\ disc.pc = "idle"
    /\ \/ Begin(Row(AllFetched), TRUE) /\ UNCHANGED events
       \/ driver = "virtualizor" /\ Event /\ Begin(Row(AllFetched), FALSE)
    /\ UNCHANGED <<driver, pool, truth, anchored, block, row>>

\* SolusVM lists block by block, and a block that cannot be read is passed over.
BlockUnread ==
    /\ disc.pc = "idle" /\ driver = "solusvm2" /\ Event
    /\ Begin(NothingRead, TRUE)
    /\ UNCHANGED <<driver, pool, truth, anchored, block, row>>

\* Mutant: every mask counts, by the number of its bits.
BitsInAnyOrder(mask) ==
    LET Bits[n \in 0..Width] == IF n = 0 THEN 0 ELSE Bits[n-1] + ((mask \div 2^(n-1)) % 2)
    IN  IF Bits[Width] >= Shortest THEN Bits[Width] ELSE 0-1

\* maskToPrefix: the leading ones are counted, and a mask that has others
\* is none; nor is one that is too short.
MaskToPrefix(mask) ==
    LET Ones[n \in 0..Width] == IF n < Width /\ (mask \div 2^(Width-n-1)) % 2 = 1 THEN Ones[n+1] ELSE n
        bits == Ones[0]
    IN  IF mask = 2^Width - 2^(Width-bits) /\ bits >= Shortest THEN bits ELSE 0-1

\* networkOf: the bits of the gateway that the prefix covers.
NetworkOf(ip, prefix) == (ip \div 2^(Width-prefix)) * 2^(Width-prefix)

-----------------------------------------------------------------------------
(* The import, statement by statement.                                     *)

Step(from, to) == disc.pc = from /\ disc' = [disc EXCEPT !.pc = to]
Write(r) == row' = r /\ UNCHANGED <<driver, pool, truth, anchored, block, events>>

\* The block of the pool, as the addresses that were read have it.
StoreBlocks ==
    LET prefix == MaskToPrefix(pool.mask)
    IN  /\ Step("blocks", "rows")
        /\ block' = IF Read.there /\ prefix >= 0
                    THEN [net |-> NetworkOf(pool.gateway, prefix), prefix |-> prefix] ELSE block
        /\ UNCHANGED <<driver, pool, truth, anchored, row, events>>

\* The name the node has for the customer.
Label == IF Free \/ ~Read.names THEN None ELSE "named"

\* A new row is watched when the address is free and not set aside.
Watchable == Free /\ ~Read.reserved
BindOf == Watchable /\ anchored /\ block # NoBlock

\* The customer of a row that exists: one that was typed in stays.
CustomerKept == IF row.manual THEN row.customer ELSE Label

\* What is read of the address is written over its row, except what an admin
\* has decided: a customer typed in, the status of a watched address, a block
\* chosen.  A new row is made with its watch.
Upserted ==
    IF ~row.known
    THEN [NoRow EXCEPT !.known = TRUE, !.linked = TRUE, !.vps = Read.vps, !.status = IF Free THEN "free" ELSE "assigned",
                       !.watch = Watchable, !.bind = BindOf, !.customer = Label, !.block = block]
    ELSE [row EXCEPT !.linked = TRUE, !.vps = Read.vps, !.customer = CustomerKept,
                     !.status = IF row.watch THEN @ ELSE IF Free THEN "free" ELSE "assigned",
                     !.block = IF @ = NoBlock THEN block ELSE @,
                     !.bind = @ \/ (row.watch /\ BindOf)]

StoreAddresses ==
    /\ Step("rows", "orphans")
    /\ Write(IF Listed THEN Upserted ELSE row)

\* The addresses of the node, the locked ones included.
AllAddr == Read.there

\* A row of the node whose address is not there any more loses its link.
ClearOrphans ==
    /\ Step("orphans", "adopt")
    /\ Write(IF row.linked /\ ~AllAddr THEN [row EXCEPT !.linked = FALSE, !.vps = None] ELSE row)

\* An address on the VPS of the anchor is the panel's.
Adopt ==
    /\ Step("adopt", "drop")
    /\ Write(IF row.linked /\ row.vps = Anchor /\ ~row.managed THEN [row EXCEPT !.managed = TRUE, !.bind = TRUE] ELSE row)

\* An address on the VPS of a customer is not watched any more.
DropAssigned ==
    /\ Step("drop", "lock")
    /\ Write(IF row.linked /\ row.watch /\ row.vps = Customer THEN [row EXCEPT !.watch = FALSE] ELSE row)

\* A locked address is marked, and not watched.
Lock ==
    /\ Step("lock", "unlock")
    /\ Write(IF row.known /\ Read.there /\ Read.locked /\ (row.watch \/ ~row.locked)
             THEN [row EXCEPT !.locked = TRUE, !.linked = TRUE, !.watch = FALSE] ELSE row)

Unlock ==
    /\ disc.pc = "unlock" /\ disc' = Idle
    /\ Write(IF Listed /\ row.linked THEN [row EXCEPT !.locked = FALSE] ELSE row)

\* The worker restarts, or a statement fails, and the rest is not done.
Crash ==
    /\ Event /\ disc.pc # "idle" /\ disc' = Idle
    /\ UNCHANGED <<driver, pool, truth, anchored, block, row>>

-----------------------------------------------------------------------------

Discovery ==
    \/ ReadLists \/ StoreBlocks \/ StoreAddresses \/ ClearOrphans
    \/ Adopt \/ DropAssigned \/ Lock \/ Unlock

Next ==
    \/ HypervisorEvent \/ TypeCustomer \/ SetWatch \/ Add \/ Remove \/ TieBlock \/ BlockUnread \/ Crash
    \/ Discovery

\* discoverAll runs on the schedule of the worker.
Spec == Init /\ [][Next]_vars /\ WF_vars(Discovery)

-----------------------------------------------------------------------------
(* What must hold.                                                         *)

\* The prefix with which an address is bound is that of its pool: a mask whose
\* ones are not contiguous yields no block (the anchor would hold the address
\* in the wrong network).
PrefixIsRight ==
    row.block # NoBlock =>
        /\ pool.mask = 2^Width - 2^(Width - row.block.prefix)
        /\ pool.gateway - row.block.net \in 0..2^Width - pool.mask - 1

\* Once the hypervisor and the admins rest, the row agrees with the hypervisor,
\* whatever was read before they did and however often an import was cut short:
\* an address that is gone is linked to no VPS; one that is locked is marked
\* and not watched; any other is linked to its VPS, one of a customer is not
\* watched and bears the name, and one on the anchor is the panel's and tied to
\* its server.  A customer that was typed in stays.  A watched address that is
\* free and whose block has an anchor is tied to its server, and the prefix of
\* its block is right.
ImportSettles ==
    <>[](/\ PrefixIsRight
         /\ LET now == Row(TRUE) IN
            IF ~now.there THEN ~row.linked /\ row.vps = None
            ELSE IF now.locked THEN row.known => row.locked /\ row.linked /\ ~row.watch
            ELSE /\ row.known /\ row.linked /\ ~row.locked /\ row.vps = now.vps
                 /\ row.customer = (IF row.manual THEN "typed" ELSE IF now.vps = None THEN None ELSE "named")
                 /\ now.vps # Customer => (row.watch \/ row.status = (IF now.vps = None THEN "free" ELSE "assigned"))
                 /\ now.vps = Customer => ~row.watch /\ row.status = "assigned"
                 /\ now.vps = Anchor => row.managed /\ row.bind
                 /\ row.watch /\ now.vps = None /\ ~now.reserved /\ anchored => row.bind)
=============================================================================
