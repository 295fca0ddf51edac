---------------------------- MODULE MCStoreText -----------------------------
(***************************************************************************)
(* Documents at rest and on the way: the relay's tables, the daemon's      *)
(* snapshots, the editors' endpoint, presence, the search for peers on the *)
(* local network, text diffs and sections.  They share no state here, so a *)
(* behaviour is one of `part` and the others stay as they were.            *)
(***************************************************************************)
EXTENDS RelayDocStore, DaemonSnapshots, DaemonYjs, RelayPresence, LanDiscovery, TextDiff, Sections

VARIABLE part

MCRecord(type, instance) ==
    [type |-> type, instance |-> instance, workspace |-> "", host |-> "", address |-> "", port |-> 0]

\* A peer's records; the address is that of its host or of the instance.
MCPeer(instance, workspace, host, owner) ==
    <<MCRecord("PTR", instance),
      [MCRecord("SRV", instance) EXCEPT !.host = host, !.port = 1],
      [MCRecord("TXT", instance) EXCEPT !.workspace = workspace],
      [MCRecord("A", owner) EXCEPT !.address = "x"]>>

MCAnnouncements == [p1 |-> MCPeer("p1", "w", "g", "p1"), p2 |-> MCPeer("p2", "v", "h", "h")]

MCSlug == [t \in {"A", "a", "!"} |-> IF t = "!" THEN "" ELSE "a"]

-----------------------------------------------------------------------------

textVars == <<diffVars, secVars>>
wireVars == <<yjsVars, presVars, lanVars>>

TextInit ==
    /\ part \in {"store", "snapshots", "yjs", "presence", "lan", "diff", "sections"}
    /\ StoreInit /\ SnapInit /\ YjsInit /\ PresInit /\ SecInit
    /\ part # "lan" => lanPacket = [i \in 1..NameBytes |-> [kind |-> "end", to |-> 0]]
    /\ part # "diff" => oldText = <<>> /\ newText = <<>>
    /\ LanInit /\ DiffInit

TextNext ==
    \/ part = "store"     /\ StoreNext /\ UNCHANGED <<part, snapVars, wireVars, textVars>>
    \/ part = "snapshots" /\ SnapNext  /\ UNCHANGED <<part, storeVars, wireVars, textVars>>
    \/ part = "yjs"       /\ YjsNext   /\ UNCHANGED <<part, storeVars, snapVars, presVars, lanVars, textVars>>
    \/ part = "presence"  /\ PresNext  /\ UNCHANGED <<part, storeVars, snapVars, yjsVars, lanVars, textVars>>
    \/ part = "lan"       /\ LanNext   /\ UNCHANGED <<part, storeVars, snapVars, yjsVars, presVars, textVars>>
    \/ part = "diff"      /\ DiffNext  /\ UNCHANGED <<part, storeVars, snapVars, wireVars, secVars>>
    \/ part = "sections"  /\ SecNext   /\ UNCHANGED <<part, storeVars, snapVars, wireVars, diffVars>>

TextSpec == TextInit /\ [][TextNext]_<<part, storeVars, snapVars, wireVars, textVars>>
=============================================================================
