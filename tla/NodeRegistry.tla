---------------------------- MODULE NodeRegistry ----------------------------
(***************************************************************************)
(* The node registry of one program (provider.rs, node.rs, p2p.rs) and the *)
(* starts of the nodes it reaches (p2p_node.rs).  A handle is a name: the  *)
(* directory as it resolved when the program opened it, the default node,  *)
(* or the loopback broker.  Any call on a handle looks its name up in      *)
(* `nodes` and starts a node on a miss, after resolving the name again.    *)
(* Meanwhile the file system moves: directories and links appear.          *)
(*                                                                         *)
(* `live` lists the nodes started since the process began, in order; the   *)
(* id of a node is its place.  first, presented and disturbed are history  *)
(* variables: the node each handle reached first in this run, the          *)
(* identities (with the encryption secrets) that nodes with saved files    *)
(* presented, and the directories that two nodes of one run shared or in   *)
(* which a file that was there could not be read.                          *)
(***************************************************************************)
EXTENDS DataDir

CONSTANTS Name,         \* the paths the program opens
          Link,         \* the links that may appear: <<path, target>>
          MaxNodes,     \* bound: nodes started by one process
          MaxLinks, MaxRestarts, MaxFailures

ASSUME RegistryAssumption ==
    /\ Name \subseteq Path
    /\ Link \subseteq Path \X Path
    /\ {MaxNodes, MaxLinks, MaxRestarts, MaxFailures} \subseteq Nat

VARIABLES permitted,    \* the host permits real networking
          handles,      \* names the program holds
          nodes,        \* the registry: name -> node id
          live, restarts, failures, minted, first, presented, disturbed

historyVars == <<presented, disturbed>>

registryVars == <<permitted, handles, nodes, live, restarts, failures, minted,
                  first, historyVars>>

vars == <<fsVars, fileVars, registryVars, env>>

-----------------------------------------------------------------------------
Named(p) == [kind |-> "named", dir |-> p]
Default  == [kind |-> "default", dir |-> Root]
Loopback == [kind |-> "loopback", dir |-> Root]

\* host_node_config: what the host lets the default node be.
HostNode == IF permitted THEN Default ELSE Loopback

\* Mutant: a named node is a real one on any host.
BackendKeyOfName(h) == h

BackendKey(h) == IF permitted THEN h ELSE Loopback

\* Mutant: the name is not resolved again.
SettleKeyNever(key) == key

SettleKey(key) ==
    IF key.kind = "named" THEN Named(CanonicalDir(key.dir)) ELSE key

\* The directory the transport is to use for a real node, if there is one.
Requested(key) == IF key.kind = "default" THEN DefaultDataDir ELSE {key.dir}

\* A live node with a data directory: its name, and where that leads.
NodeIn(dir, home, key) ==
    [real |-> TRUE, persists |-> TRUE, dir |-> dir, home |-> home, key |-> key,
     secret |-> 0, owner |-> 0]

\* A live node that keeps nothing.
Transient(real, key) ==
    [real |-> real, persists |-> FALSE, dir |-> Root, home |-> Root, key |-> key,
     secret |-> 0, owner |-> 0]

Nothing == [h \in {} |-> 0]

Fault(happened) == IF happened THEN 1 ELSE 0

With(f, h, value) == [k \in DOMAIN f \cup {h} |-> IF k = h THEN value ELSE f[k]]

-----------------------------------------------------------------------------
Init ==
    /\ dirs = {Root} /\ links = Nothing
    /\ identity = Nothing /\ credentials = Nothing
    /\ env \in Environment /\ permitted \in BOOLEAN
    /\ handles = {} /\ nodes = Nothing /\ live = <<>>
    /\ restarts = 0 /\ failures = 0 /\ minted = 0
    /\ first = Nothing
    /\ presented = {} /\ disturbed = {}

Moves ==
    /\ \/ \E p \in Name : \E n \in 1 .. Len(p) : MakeDir(Prefix(p, n))
       \/ /\ Cardinality(DOMAIN links) < MaxLinks
          /\ \E link \in Link : MakeLink(link[1], link[2])
    /\ UNCHANGED registryVars

\* p2p.open(p): naming creates nothing and cannot fail.
Open(p) ==
    /\ handles' = handles \cup {Named(CanonicalDir(p))}
    /\ UNCHANGED <<fsVars, fileVars, permitted, nodes, live, restarts, failures,
                   minted, first, historyVars>>

\* p2p.node(), and what the free functions of p2p run on.
OpenDefault ==
    /\ handles' = handles \cup {HostNode}
    /\ UNCHANGED <<fsVars, fileVars, permitted, nodes, live, restarts, failures,
                   minted, first, historyVars>>

\* The call on h is answered by node n.
Answered(h, n) == first' = IF h \in DOMAIN first THEN first ELSE With(first, h, n)

ReachLive(h) ==
    LET key == BackendKey(h) IN
    /\ key \in DOMAIN nodes
    /\ Answered(h, nodes[key])
    /\ UNCHANGED <<fsVars, fileVars, permitted, handles, nodes, live, restarts,
                   failures, minted, historyVars>>

\* The settled name has a node: the name that missed becomes its alias.
ReachSettled(h) ==
    LET key == BackendKey(h)
        settled == SettleKey(key) IN
    /\ key \notin DOMAIN nodes
    /\ settled \in DOMAIN nodes
    /\ nodes' = With(nodes, key, nodes[settled])
    /\ Answered(h, nodes[settled])
    /\ UNCHANGED <<fsVars, fileVars, permitted, handles, live, restarts, failures,
                   minted, historyVars>>

Missed(h) ==
    LET key == BackendKey(h) IN
    key \notin DOMAIN nodes /\ SettleKey(key) \notin DOMAIN nodes

\* Mutant: the name that missed is not recorded beside the settled one.
EnterSettledOnly(h, node) ==
    LET id == Len(live) + 1 IN
    /\ live' = Append(live, node)
    /\ nodes' = With(nodes, SettleKey(BackendKey(h)), id)
    /\ Answered(h, id)

\* A node is up: it is entered under the settled name and the one that missed.
Enter(h, node) ==
    LET key == BackendKey(h)
        id  == Len(live) + 1 IN
    /\ live' = Append(live, node)
    /\ nodes' = With(With(nodes, key, id), SettleKey(key), id)
    /\ Answered(h, id)

StartLoopback(h) ==
    /\ Missed(h) /\ BackendKey(h) = Loopback
    /\ Len(live) < MaxNodes
    /\ Enter(h, Transient(FALSE, 0))
    /\ UNCHANGED <<fsVars, fileVars, permitted, handles, restarts, failures,
                   minted, historyVars>>

\* There is no data directory, or it cannot be made: the node runs with a new
\* key and keeps nothing.  What was made of the directory's path stays.
StartEphemeral(h) ==
    LET requested == Requested(SettleKey(BackendKey(h))) IN
    /\ Missed(h) /\ BackendKey(h) # Loopback
    /\ Len(live) < MaxNodes
    /\ \/ requested = {} /\ UNCHANGED <<dirs, failures>>
       \/ \E dir \in requested : \E n \in 0 .. Len(dir) :
            /\ Creatable(Prefix(dir, n))
            /\ dirs' = dirs \cup Created(Prefix(dir, n))
            /\ failures' = IF Creatable(dir) THEN failures + 1 ELSE failures
            /\ failures' <= MaxFailures
    /\ Enter(h, Transient(TRUE, minted + 1))
    /\ minted' = minted + 1
    /\ UNCHANGED <<links, fileVars, permitted, handles, restarts, historyVars>>

Forget ==
    /\ handles' = {} /\ nodes' = Nothing /\ live' = <<>> /\ first' = Nothing
    /\ restarts' = restarts + 1

\* A node runs in home.
Taken(home) == \E n \in DOMAIN live : live[n].persists /\ live[n].home = home

\* start_with_config in a directory: the directory and the identity come
\* first, from a file that may not be readable; then the new file may not be
\* written ("unsaved"), the networking may not start ("failed": nothing is
\* entered), or the process may stop half-way through the file ("torn").
StartPersistent(h, dir, outcome, readable) ==
    LET home == Home(dir)
        key  == LoadedIdentity(home, minted + 1, readable)
        new  == key = minted + 1 IN
    /\ Missed(h) /\ BackendKey(h) # Loopback
    /\ Len(live) < MaxNodes
    /\ dir \in Requested(SettleKey(BackendKey(h))) /\ Creatable(dir)
    /\ dirs' = dirs \cup Created(dir)
    /\ minted' = IF new THEN minted + 1 ELSE minted
    /\ ~readable => home \in DOMAIN identity
    /\ outcome \in {"unsaved", "torn"} => new
    /\ failures' = failures + Fault(outcome # "saved") + Fault(~readable)
    /\ failures' <= MaxFailures
    /\ identity' = CASE outcome = "unsaved" -> identity
                     [] outcome = "torn"    -> Saved(identity, home, 0)
                     [] OTHER               -> Saved(identity, home, key)
    /\ IF outcome = "torn"
       THEN restarts < MaxRestarts /\ Forget
       ELSE /\ IF outcome = "failed" THEN UNCHANGED <<live, nodes, first>>
               ELSE Enter(h, NodeIn(dir, home, key))
            /\ UNCHANGED <<handles, restarts>>
    /\ presented' = IF outcome = "saved" THEN presented \cup {<<home, key, 0>>}
                    ELSE presented
    /\ disturbed' =
         IF ~readable \/ (outcome \in {"saved", "unsaved"} /\ Taken(home))
         THEN disturbed \cup {home} ELSE disturbed
    /\ UNCHANGED <<links, credentials, permitted>>

\* crypto(): the first use of a group on node n opens its credentials.
OpenCrypto(n, outcome, readable) ==
    LET home   == live[n].home
        kept   == live[n].persists /\ Fits(home, live[n].key, readable)
        secret == IF kept THEN credentials[home].secret ELSE minted + 1
        owner  == IF kept THEN credentials[home].owner ELSE live[n].key
        saved  == live[n].persists /\ outcome = "saved" IN
    /\ live[n].real /\ live[n].secret = 0
    /\ live' = [live EXCEPT ![n].secret = secret, ![n].owner = owner]
    /\ minted' = IF kept THEN minted ELSE minted + 1
    /\ outcome = "unsaved" => ~kept /\ live[n].persists
    /\ ~readable => live[n].persists /\ home \in DOMAIN credentials
    /\ failures' = failures + Fault(outcome # "saved") + Fault(~readable)
    /\ failures' <= MaxFailures
    /\ credentials' =
         IF kept \/ ~saved THEN credentials
         ELSE Saved(credentials, home, [owner |-> owner, secret |-> secret])
    /\ presented' =
         IF ~saved \/ <<home, live[n].key, 0>> \notin presented
         THEN presented ELSE presented \cup {<<home, live[n].key, secret>>}
    /\ disturbed' = IF readable THEN disturbed ELSE disturbed \cup {home}
    /\ UNCHANGED <<fsVars, identity, permitted, handles, nodes, restarts, first>>

\* The process stops, its registry with it; what is on disk stays.
Restart ==
    /\ restarts < MaxRestarts
    /\ Forget
    /\ UNCHANGED <<fsVars, fileVars, permitted, failures, minted, historyVars>>

Step ==
    \/ Moves
    \/ \E p \in Name : Open(p)
    \/ OpenDefault
    \/ \E h \in handles :
         \/ ReachLive(h) \/ ReachSettled(h)
         \/ StartLoopback(h) \/ StartEphemeral(h)
         \/ \E dir \in Requested(SettleKey(BackendKey(h))),
                outcome \in {"saved", "unsaved", "torn", "failed"},
                readable \in BOOLEAN :
              StartPersistent(h, dir, outcome, readable)
    \/ \E n \in DOMAIN live :
         \E outcome \in {"saved", "unsaved"}, readable \in BOOLEAN :
           OpenCrypto(n, outcome, readable)
    \/ Restart

\* What the process is told when it starts does not change with the runs.
Next == Step /\ UNCHANGED env

Spec == Init /\ [][Next]_vars

-----------------------------------------------------------------------------
Config == [kind : {"named", "default", "loopback"}, dir : Path]

LiveNode == [real : BOOLEAN, persists : BOOLEAN, dir : Path, home : Path,
             key : Nat, secret : Nat, owner : Nat]

\* Types; and the registry names live nodes only.
TypeOK ==
    /\ env \in Environment
    /\ dirs \subseteq Path /\ Root \in dirs
    /\ DOMAIN links \subseteq Path \ dirs
    /\ DOMAIN identity \subseteq dirs /\ DOMAIN credentials \subseteq dirs
    /\ handles \subseteq Config /\ DOMAIN nodes \subseteq Config
    /\ live \in Seq(LiveNode)
    /\ \A h \in DOMAIN nodes : nodes[h] \in DOMAIN live
    /\ DOMAIN first \subseteq handles
    /\ restarts \in 0 .. MaxRestarts /\ failures \in 0 .. MaxFailures

\* "One directory reaches one live node because one key reaches one map entry"
\* (provider.rs, backend_in): no two live nodes keep their identity and their
\* store in one directory, however it was spelled and whatever of the path was
\* there when it was named - unless one of them was started under a name whose
\* missing part led back up ("/x/missing/../n"), which canonical_dir leaves as
\* it was spelled: such a node is beside the one of "/x/n", not that one.
OneNodePerDirectory ==
    \A n, m \in DOMAIN live :
        /\ live[n].persists /\ live[m].persists /\ live[n].home = live[m].home
        /\ ~Dotted(live[n].dir) /\ ~Dotted(live[m].dir)
        => n = m

\* A handle reaches the node it woke for as long as the process runs, and that
\* node lives in the directory the handle's name leads to by now - unless that
\* directory could not be made, and the node keeps nothing (provider.rs,
\* backend_in and settle_key).
HandlesPinned ==
    \A h \in DOMAIN first :
        /\ BackendKey(h) \in DOMAIN nodes
        /\ nodes[BackendKey(h)] = first[h]
        /\ BackendKey(h).kind = "named" /\ live[first[h]].persists =>
             live[first[h]].home = CanonicalDir(h.dir)

\* A host that permits no networking starts none, whatever the program opens:
\* all handles share the one broker and nothing is written (backend_key).
SandboxStaysLocal ==
    ~permitted => /\ Len(live) <= 1 /\ \A n \in DOMAIN live : ~live[n].real
                  /\ identity = Nothing /\ credentials = Nothing

\* Once a node with a saved identity has run in a directory, every later one
\* there has that identity, and with saved credentials that encryption secret,
\* over restarts, files that cannot be written and files torn half-way - unless
\* two nodes of one run shared the directory, or a file that was there could not
\* be read once: load_or_create_identity then writes a new key over the good
\* one.  The credentials a node uses are always those of its own identity, also
\* when an earlier identity was never saved (load_or_create_credentials).
IdentityKept ==
    /\ \A a, b \in presented :
         a[1] = b[1] /\ a[1] \notin disturbed =>
             a[2] = b[2] /\ (a[3] # 0 /\ b[3] # 0 => a[3] = b[3])
    /\ \A n \in DOMAIN live : live[n].owner \in {0, live[n].key}
=============================================================================
