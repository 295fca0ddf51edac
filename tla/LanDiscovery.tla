---------------------------- MODULE LanDiscovery ----------------------------
(***************************************************************************)
(* Finding daemons of a workspace on the local network                     *)
(* (crates/daemon/src/relay/mdns.rs): one query, then packets until the    *)
(* deadline or until nothing came for DISCOVERY_POLL_STEP.  The packets of *)
(* the peers come in any order, twice, damaged, or not at all.             *)
(*                                                                         *)
(* A packet is a sequence of resource records, and damage cuts it after    *)
(* some of them.  The bytes are modelled for names only, where compression *)
(* pointers can loop.                                                      *)
(***************************************************************************)
EXTENDS Integers, Sequences, FiniteSets

CONSTANTS
    Announcements,   \* instance -> the records of the peer behind it
    OwnWorkspace,
    MaxPackets,
    NameBytes        \* length of the packets decode_dns_name is checked on

ASSUME NameBytesNat == NameBytes \in Nat

RecordsOf(a) == {a[k] : k \in DOMAIN a}

\* A peer announces itself in a PTR, an SRV and a TXT record of its instance,
\* and one address, under its host or its instance, that no peer contradicts.
ASSUME LanAnnounced == \A i \in DOMAIN Announcements :
    LET all == RecordsOf(Announcements[i])
    IN /\ Announcements[i] \in Seq(all)
       /\ \A r \in all : r.type \in {"PTR", "SRV", "TXT", "A"} /\ (r.type # "A" => r.instance = i)
       /\ \E r \in all : r.type = "PTR"
       /\ \E r \in all : r.type = "TXT" /\ \A q \in all : q.type = "TXT" => q = r
       /\ \E s, a \in all :
             /\ s.type = "SRV" /\ \A q \in all : q.type = "SRV" => q = s
             /\ a.type = "A" /\ a.instance \in {s.host, i}
             /\ \A j \in DOMAIN Announcements : \A q \in RecordsOf(Announcements[j]) :
                   q.type = "A" /\ q.instance \in {s.host, i} => q.address = a.address

VARIABLES
    discovery,   \* "query", "listening", "done" or "failed"
    ptr, srv, txt, addresses,   \* MdnsRecords
    received,    \* the records that were merged
    peers,       \* the answer
    packets,     \* how many came
    lanPacket    \* a packet of name bytes to decode

lanVars == <<discovery, ptr, srv, txt, addresses, received, peers, packets, lanPacket>>

-----------------------------------------------------------------------------
(* Names *)

\* A byte is an end, a pointer, or the length 1 of a label and then its text.
NameCells == {[kind |-> "end", to |-> 0], [kind |-> "label", to |-> 0]} \union
             {[kind |-> "pointer", to |-> p] : p \in 0..NameBytes}

\* Where the loop is: in a name, at its end, or out of it with an error.
\* `next` is where the name ends in the record itself, once that is known.
Failed == [state |-> "failed", cursor |-> -1, labels |-> <<>>, next |-> -1]

\* One turn of the loop.
decode_step(packet, at) ==
    IF at.state # "name" THEN at
    ELSE IF at.cursor >= Len(packet) THEN Failed
    ELSE LET cell == packet[at.cursor + 1]
             ends(n) == IF at.next = -1 THEN n ELSE at.next
         IN CASE cell.kind = "end" -> [at EXCEPT !.state = "end", !.next = ends(at.cursor + 1)]
              [] cell.kind = "pointer" ->
                   IF at.cursor + 1 >= Len(packet) \/ cell.to >= Len(packet) THEN Failed
                   ELSE [at EXCEPT !.cursor = cell.to, !.next = ends(at.cursor + 2)]
              [] cell.kind = "label" ->
                   IF at.cursor + 2 > Len(packet) THEN Failed
                   ELSE [at EXCEPT !.cursor = at.cursor + 2, !.labels = Append(@, at.cursor + 1)]

\* The loop is given as many turns as the packet has bytes.
decode_dns_name(packet, offset) ==
    LET turn[n \in 0..Len(packet)] ==
            IF n = 0 THEN [state |-> "name", cursor |-> offset, labels |-> <<>>, next |-> -1]
            ELSE decode_step(packet, turn[n - 1])
    IN  turn[Len(packet)]

-----------------------------------------------------------------------------
(* Records *)

\* One record; SRV and TXT of an instance replace, the others add.
MergeRecord(acc, rr) ==
    CASE rr.type = "PTR" -> [acc EXCEPT !.ptr = @ \union {rr.instance}]
      [] rr.type = "SRV" -> [acc EXCEPT !.srv = {r \in @ : r.instance # rr.instance} \union {rr}]
      [] rr.type = "TXT" -> [acc EXCEPT !.txt = {r \in @ : r.instance # rr.instance} \union {rr}]
      [] rr.type = "A"   -> [acc EXCEPT !.addresses = @ \union {rr}]

\* The records up to where the packet is damaged.
merge_records_from_packet(records, cutAfter) ==
    LET merged[n \in 0..cutAfter] ==
            IF n = 0 THEN [ptr |-> ptr, srv |-> srv, txt |-> txt, addresses |-> addresses]
            ELSE MergeRecord(merged[n - 1], records[n])
    IN  merged[cutAfter]

\* Mutant: the TXT records are not compared.
ResolveAnyWorkspace ==
    LET at(host) == {r.address : r \in {a \in addresses : a.instance = host}}
        ofTarget(s) == IF at(s.host) # {} THEN at(s.host) ELSE at(s.instance)
        located == {s \in srv : s.instance \in ptr}
    IN UNION {{[instance |-> s.instance, address |-> a, port |-> s.port] : a \in ofTarget(s)} : s \in located}

\* A peer whose TXT record names another workspace is left out, one without
\* a TXT record is not.
resolve_records ==
    LET scoped(i) == \A r \in txt : r.instance = i => r.workspace = OwnWorkspace
        at(host) == {r.address : r \in {a \in addresses : a.instance = host}}
        ofTarget(s) == IF at(s.host) # {} THEN at(s.host) ELSE at(s.instance)
        located == {s \in srv : s.instance \in ptr /\ scoped(s.instance)}
    IN UNION {{[instance |-> s.instance, address |-> a, port |-> s.port] : a \in ofTarget(s)} : s \in located}

-----------------------------------------------------------------------------
(* discover_lan_peers_with_socket *)

LanInit ==
    /\ discovery = "query"
    /\ ptr = {} /\ srv = {} /\ txt = {} /\ addresses = {}
    /\ received = {} /\ peers = {} /\ packets = 0
    /\ lanPacket \in [1..NameBytes -> NameCells]

\* A timeout of zero, or an error that only says there is no network, is an
\* empty answer; another error fails the call.
send_query(outcome) ==
    /\ discovery = "query"
    /\ discovery' = outcome
    /\ UNCHANGED <<ptr, srv, txt, addresses, received, peers, packets, lanPacket>>

recv_packet(records, cutAfter) ==
    /\ discovery = "listening" /\ packets < MaxPackets
    /\ packets' = packets + 1
    /\ LET merged == merge_records_from_packet(records, cutAfter)
       IN /\ ptr' = merged.ptr /\ srv' = merged.srv
          /\ txt' = merged.txt /\ addresses' = merged.addresses
    /\ received' = received \union {records[i] : i \in 1..cutAfter}
    /\ UNCHANGED <<discovery, peers, lanPacket>>

\* The deadline, or a read that timed out; a peer that is slower than one
\* poll step is not waited for.
deadline ==
    /\ discovery = "listening"
    /\ discovery' = "done"
    /\ peers' = resolve_records
    /\ UNCHANGED <<ptr, srv, txt, addresses, received, packets, lanPacket>>

recv_fails ==
    /\ discovery = "listening"
    /\ discovery' = "failed"
    /\ UNCHANGED <<ptr, srv, txt, addresses, received, peers, packets, lanPacket>>

\* A peer sends its records in one packet, or the address in one of its own.
PacketsOf(a) == {a, SubSeq(a, 1, Len(a) - 1), <<a[Len(a)]>>}

LanNext ==
    \/ \E outcome \in {"listening", "done", "failed"} : send_query(outcome)
    \/ \E i \in DOMAIN Announcements : \E p \in PacketsOf(Announcements[i]) : \E n \in 0..Len(p) : recv_packet(p, n)
    \/ deadline \/ recv_fails

LanSpec == LanInit /\ [][LanNext]_lanVars

-----------------------------------------------------------------------------
(* Properties *)

\* resolve_records: whatever the order of the packets, their repeats and
\* their damage, the answer is one endpoint for each peer whose records all
\* arrived and name the own workspace, besides peers whose TXT record was
\* lost, of whichever workspace.
LanPeersExact ==
    LET whole(i) == {Announcements[i][k] : k \in DOMAIN Announcements[i]} \subseteq received
        own(i) == \E k \in DOMAIN Announcements[i] :
                     Announcements[i][k].type = "TXT" /\ Announcements[i][k].workspace = OwnWorkspace
        found(i) == {p \in peers : p.instance = i}
    IN discovery = "done" /\ packets > 0 => \A i \in DOMAIN Announcements :
          /\ whole(i) => Cardinality(found(i)) = (IF own(i) THEN 1 ELSE 0)
          /\ found(i) # {} => own(i) \/ {r \in received : r.type = "TXT" /\ r.instance = i} = {}

\* decode_dns_name: pointers that loop end the name, and a name that decodes
\* ends behind its first byte and inside the packet.
LanNamesEnd ==
    \A offset \in 0..NameBytes - 1 :
       LET name == decode_dns_name(lanPacket, offset)
       IN name.state = "end" => name.next \in offset + 1..NameBytes /\ Len(name.labels) < NameBytes

\* The answer and the decoder behind it.
LanSound == LanPeersExact /\ LanNamesEnd
=============================================================================
