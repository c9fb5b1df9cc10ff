---------------------------- MODULE AddressBook ----------------------------
(***************************************************************************)
(* The addresses a node knows of one network and dials: the table address  *)
(* of db.rs, and the AddressPoolMaintainer and KeepConnected of that       *)
(* network (p2p_bitcoin.rs or p2p_defiads.rs, which have the same form).   *)
(*                                                                         *)
(* The table has a limited number of slots.  An address always goes to the *)
(* same slot, and several addresses may share one.  The thread that keeps  *)
(* the table has a channel of events, so it learns of a connection or a    *)
(* ban some time after it happened, or never if the process stops.         *)
(*                                                                         *)
(* The Discovery thread adds what peers tell it to the table of the        *)
(* defiads network.  It notes a ban in the table of the Bitcoin network,   *)
(* and does not commit that it noted a connection.                         *)
(***************************************************************************)
EXTENDS Integers, FiniteSets, SequencesExt

CONSTANTS
    Addresses,
    Slots,
    Slot,           \* [Addresses -> Slots]: the hash of store_address
    Seeds,          \* addresses the DNS lookup gives
    Peers,          \* addresses given on the command line
    Learned,        \* addresses that peers tell
    Foreign,        \* addresses of peers of the other network that Discovery bans here
    MinConnections,
    BackPressure,   \* capacity of the channel
    BAN_TIME,
    OLD_CONNECTION,
    Epoch,          \* the time at the first start
    MaxTime,        \* bound of the clock
    MaxCrashes,     \* bound: crashes
    NoRow

ASSUME AddressAssumption ==
    /\ Slot \in [Addresses -> Slots]
    /\ {Seeds, Peers, Learned, Foreign} \subseteq SUBSET Addresses

\* The fields of a row are 0 for "never".
ASSUME TimeAssumption ==
    /\ {MinConnections, BackPressure, BAN_TIME, OLD_CONNECTION, MaxTime, MaxCrashes} \subseteq Nat
    /\ Epoch \in Nat /\ Epoch > BAN_TIME /\ Epoch > OLD_CONNECTION

VARIABLES
    now,
    running,
    crashes,
    table,          \* table address: the row of every slot
    earlier,        \* KeepConnected::earlier
    dialling,       \* add_peer in progress
    connected,
    pool,           \* channel of the AddressPoolMaintainer
    bannedAt,       \* history: when a ban was last noted, 0 for never
    notedAt         \* history: when a connection last went into a row, 0 for never

tableVars == <<table, bannedAt, notedAt>>
connectionVars == <<earlier, dialling, connected>>
processVars == <<now, running, crashes>>
vars == <<processVars, tableVars, connectionVars, pool>>

-----------------------------------------------------------------------------
(* The table. *)

\* last_seen is left out: it makes some choices of get_an_address more probable.
Row(a, conn, ban) == [ip |-> a, connected |-> conn, banned |-> ban]

ReplaceableNextDay(old) == old.banned > 0 \/ old.connected < now

\* A row that makes room for another address.
Replaceable(old) == old.banned > 0 \/ old.connected < now - OLD_CONNECTION

Latest(m, n) == IF m > n THEN m ELSE n

MergedOver(old, new) == new

\* No field of a row is reduced.
Merged(old, new) ==
    Row(new.ip, Latest(old.connected, new.connected), Latest(old.banned, new.banned))

\* store_address
StoreAddress(rows, new) ==
    LET s == Slot[new.ip]
    IN  CASE rows[s] = NoRow -> [rows EXCEPT ![s] = new]
          [] rows[s] # NoRow /\ rows[s].ip = new.ip -> [rows EXCEPT ![s] = Merged(@, new)]
          [] OTHER -> IF Replaceable(rows[s]) THEN [rows EXCEPT ![s] = new] ELSE rows

\* What is noted of an address one has only heard of, one after the other in one
\* transaction.
StoreUntried(rows, as) == FoldLeft(LAMBDA r, a : StoreAddress(r, Row(a, 0, 0)), rows, as)

NotBanned(a) ==
    \E s \in Slots :
        table[s] # NoRow /\ table[s].ip = a /\ table[s].banned < now - BAN_TIME

\* get_an_address: any of these, since the choice is random
GetAnAddress(other_than) == {a \in Addresses \ other_than : NotBanned(a)}

-----------------------------------------------------------------------------
(* KeepConnected::poll, every ten seconds. *)

Below == running /\ Cardinality(connected) < MinConnections

\* The seeds are what is left when there is no other.
Candidates ==
    LET known == GetAnAddress(earlier \cup connected)
    IN  IF known # {} THEN known ELSE Seeds \ (earlier \cup connected)

TriedNotNoted(a) == earlier \cup connected

\* An address is dialled at most once in the life of a process.
Tried(a) == earlier \cup connected \cup {a}

KeepConnected ==
    /\ Below
    /\ \E a \in Candidates : earlier' = Tried(a) /\ dialling' = dialling \cup {a}
    /\ UNCHANGED <<processVars, tableVars, connected, pool>>

-----------------------------------------------------------------------------
(* Connections, and the dispatcher that tells the threads of them. *)

DispatchUnbounded(event) == pool' = Append(pool, event)

\* The channel is a sync_channel: the dispatcher waits while it is full.
Dispatch(event) ==
    /\ Len(pool) < BackPressure
    /\ pool' = Append(pool, event)

Established(a) ==
    /\ a \in dialling
    /\ dialling' = dialling \ {a}
    /\ connected' = connected \cup {a}
    /\ Dispatch([type |-> "Connected", address |-> a])
    /\ UNCHANGED <<processVars, tableVars, earlier>>

Refused(a) ==
    /\ a \in dialling
    /\ dialling' = dialling \ {a}
    /\ UNCHANGED <<processVars, tableVars, earlier, connected, pool>>

Disconnected(a, banned) ==
    /\ a \in connected
    /\ connected' = connected \ {a}
    /\ Dispatch([type |-> IF banned THEN "Banned" ELSE "Disconnected", address |-> a])
    /\ UNCHANGED <<processVars, tableVars, earlier, dialling>>

-----------------------------------------------------------------------------
(* The threads that keep the table. *)

Ban(a) ==
    /\ table' = StoreAddress(table, Row(a, 0, now))
    /\ bannedAt' = [bannedAt EXCEPT ![a] = now]
    /\ UNCHANGED notedAt

\* AddressPoolMaintainer::run, Connected and Disconnected
PoolMaintains ==
    /\ pool # <<>>
    /\ pool' = Tail(pool)
    /\ LET event == Head(pool)
       IN  CASE event.type = "Connected" ->
                  /\ table' = StoreAddress(table, Row(event.address, now, 0))
                  /\ notedAt' = [notedAt EXCEPT ![event.address] =
                                    IF table'[Slot[event.address]].ip = event.address
                                    THEN now ELSE @]
                  /\ UNCHANGED bannedAt
             [] event.type = "Banned" -> Ban(event.address)
             [] OTHER -> UNCHANGED tableVars
    /\ UNCHANGED <<processVars, connectionVars>>

\* Discovery::run, Disconnected: a banned peer of the defiads network is noted in
\* the table of the Bitcoin network.
DiscoveryBans ==
    /\ running
    /\ \E a \in Foreign : Ban(a)
    /\ UNCHANGED <<processVars, connectionVars, pool>>

\* Discovery::run, AddressIBLT: the addresses that the table of a peer has and the
\* one sent to it has not, in the order in which they are peeled off; or, in the
\* Bitcoin network, AddressPoolMaintainer::run, Addr: those with a time in the past
\* and the services that are needed.
LearnAddresses ==
    /\ running
    /\ \E as \in SetToAllKPermutations(Learned) : table' = StoreUntried(table, as)
    /\ UNCHANGED <<processVars, bannedAt, notedAt, connectionVars, pool>>

-----------------------------------------------------------------------------
(* Time and the process. *)

Tick ==
    /\ now < MaxTime
    /\ now' = now + 1
    /\ UNCHANGED <<running, crashes, tableVars, connectionVars, pool>>

Crash ==
    /\ running /\ crashes < MaxCrashes
    /\ running' = FALSE
    /\ crashes' = crashes + 1
    /\ earlier' = {} /\ dialling' = {} /\ connected' = {}
    /\ pool' = <<>>
    /\ UNCHANGED <<now, tableVars>>

\* P2PBitcoin::start, P2PBiadNet::start
Start ==
    /\ ~running
    /\ running' = TRUE
    /\ earlier' = Peers /\ dialling' = Peers
    /\ table' = StoreUntried(table, SetToSeq(Seeds))
    /\ UNCHANGED <<now, crashes, bannedAt, notedAt, connected, pool>>

Init ==
    /\ now = Epoch /\ running = FALSE /\ crashes = 0
    /\ table = [s \in Slots |-> NoRow]
    /\ earlier = {} /\ dialling = {} /\ connected = {}
    /\ pool = <<>>
    /\ bannedAt = [a \in Addresses |-> 0]
    /\ notedAt = [a \in Addresses |-> 0]

Next ==
    \/ KeepConnected
    \/ \E a \in Addresses :
          Established(a) \/ Refused(a) \/ \E banned \in BOOLEAN : Disconnected(a, banned)
    \/ PoolMaintains \/ DiscoveryBans \/ LearnAddresses
    \/ Tick \/ Crash \/ Start

Spec == Init /\ [][Next]_vars

\* KeepConnected runs every ten seconds, and the attempt to connect to an address
\* ends; the thread handles its events.
FairSpec ==
    /\ Spec
    /\ WF_vars(KeepConnected)
    /\ WF_vars(PoolMaintains)
    /\ WF_vars(\E a \in Addresses : Established(a) \/ Refused(a))

-----------------------------------------------------------------------------
Rows == [ip : Addresses, connected : Nat, banned : Nat]

Events == [type : {"Connected", "Disconnected", "Banned"}, address : Addresses]

\* The type of the table, the channel and the connections; a row of store_address is
\* in the slot of its address and its times are not in the future.
TypeOK ==
    /\ now \in Epoch..MaxTime /\ running \in BOOLEAN /\ crashes \in 0..MaxCrashes
    /\ table \in [Slots -> Rows \cup {NoRow}]
    /\ \A s \in Slots : table[s] # NoRow =>
          Slot[table[s].ip] = s /\ table[s].connected <= now /\ table[s].banned <= now
    /\ {earlier, dialling, connected} \subseteq SUBSET Addresses
    /\ pool \in Seq(Events) /\ Len(pool) <= BackPressure
    /\ bannedAt \in [Addresses -> 0..now] /\ notedAt \in [Addresses -> 0..now]

\* No other address has the slot of a.
Alone(a) == \A b \in Addresses \ {a} : Slot[b] # Slot[a]

\* An address whose ban was noted is not dialled for BAN_TIME, whatever peers tell of
\* it meanwhile, whatever events of its connections are handled later, and although a
\* start forgets which addresses were dialled (store_address, get_an_address).  This
\* holds for an address that shares its slot with no other (one that does may lose
\* its row, and the ban with it) and that is neither a seed nor given on the command
\* line: these are dialled without a look at the ban.
BanHolds ==
    [][\A a \in dialling' \ dialling :
          /\ a \notin Seeds \cup Peers
          /\ Alone(a)
          => bannedAt[a] < now - BAN_TIME]_vars

\* The node can go back to the peers it had: an address with which a connection was
\* noted in its row is one that get_an_address may give, through all that peers tell,
\* crashes and bans of other addresses.  If it shares its slot this holds for
\* OLD_CONNECTION after the last connection, and only if it has never been banned
\* (any ban, however old, makes its row replaceable); otherwise it holds for
\* ever, but for the time of a ban (store_address, get_an_address).
PeersRemembered ==
    \A a \in Addresses :
        /\ notedAt[a] > 0
        /\ \/ bannedAt[a] = 0 /\ notedAt[a] >= now - OLD_CONNECTION
           \/ Alone(a) /\ bannedAt[a] < now - BAN_TIME
        => NotBanned(a)

\* KeepConnected gets round to every address: as long as there are too few
\* connections, an address in the table that is not banned is dialled some time,
\* whatever else peers tell and however the random choice falls.
EveryAddressTried ==
    \A a \in Addresses : Below /\ NotBanned(a) ~> a \in earlier \/ ~Below \/ ~NotBanned(a)

=============================================================================
