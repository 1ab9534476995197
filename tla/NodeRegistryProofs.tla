------------------------- MODULE NodeRegistryProofs -------------------------
(***************************************************************************)
(* Theorems about NodeRegistry: where the names of the registry lead, that *)
(* a handle keeps the node it reached, that a host without networking has  *)
(* none, that a directory keeps its identity, and, as far as the default   *)
(* node's directory is named by nobody, that it has one live node.         *)
(***************************************************************************)
EXTENDS NodeRegistry, DataDirProofs

-----------------------------------------------------------------------------
\* The names there are.
Key == {Default, Loopback} \cup {Named(p) : p \in Path}

Credentials == [owner : Nat, secret : Nat]

\* The types as the proofs need them: the file system is whole, names are
\* well formed, and no identity has a number that was not given out.
TypeInv ==
    /\ env \in Environment /\ permitted \in BOOLEAN
    /\ Whole(dirs, links)
    /\ DOMAIN identity \subseteq dirs /\ DOMAIN credentials \subseteq dirs
    /\ minted \in Nat
    /\ \A d \in DOMAIN identity : identity[d] \in 0 .. minted
    /\ \A d \in DOMAIN credentials : credentials[d] \in Credentials
    /\ handles \subseteq Key /\ DOMAIN nodes \subseteq Key
    /\ live \in Seq(LiveNode)
    /\ \A k \in DOMAIN nodes : nodes[k] \in DOMAIN live
    /\ \A n \in DOMAIN live : live[n].home \in dirs
    /\ DOMAIN first \subseteq handles
    /\ restarts \in 0 .. MaxRestarts /\ failures \in 0 .. MaxFailures

-----------------------------------------------------------------------------
\* What the operators of the model give.
LEMMA KeyShape ==
    ASSUME NEW k \in Key
    PROVE  /\ k \in Config
           /\ k.kind = "named" => k.dir \in Path /\ k = Named(k.dir)
           /\ k.kind = "default" => k = Default
           /\ k.kind \notin {"named", "default"} => k = Loopback
BY RootShape DEF Key, Config, Named, Default, Loopback

\* Names of a kind are the same when their directories are.
LEMMA NamedApart ==
    /\ \A p, q : Named(p) = Named(q) => p = q
    /\ \A p : Named(p).kind = "named" /\ Named(p).dir = p
    /\ \A p : Named(p) # Default /\ Named(p) # Loopback
    /\ Default # Loopback /\ Default.kind = "default" /\ Loopback.kind = "loopback"
    /\ Loopback.dir = Root
BY DEF Named, Default, Loopback

\* A settled name is a name of the same kind, and settling it again gives it.
LEMMA Settled ==
    ASSUME Whole(dirs, links), NEW k \in Key
    PROVE  /\ SettleKey(k) \in Key
           /\ k.kind = "named" =>
                /\ CanonicalDir(k.dir) \in Path
                /\ SettleKey(k) = Named(CanonicalDir(k.dir))
                /\ CanonicalDir(CanonicalDir(k.dir)) = CanonicalDir(k.dir)
                /\ Canonicalize(CanonicalDir(k.dir)) = Canonicalize(k.dir)
           /\ k.kind # "named" => SettleKey(k) = k
<1>1. CASE k.kind = "named"
  <2>1. k.dir \in Path
    BY <1>1, KeyShape
  <2> DEFINE c == CanonicalIn(dirs, links, k.dir)
  <2>2. Grown(dirs, links, dirs, links)
    BY SameGrown
  <2>3. c \in Path /\ Leads(dirs, links, c) = Leads(dirs, links, k.dir)
    BY <2>1, <2>2, CanonicalLeads
  <2>4. CanonicalIn(dirs, links, c) = c
    BY <2>1, CanonicalTwice
  <2>5. CanonicalDir(k.dir) = c
    BY CanonicalDirIn
  <2> HIDE DEF c
  <2>6. CanonicalDir(c) = c /\ Canonicalize(c) = Canonicalize(k.dir)
    BY <2>3, <2>4, CanonicalDirIn, CanonicalizeLeads
  <2>7. SettleKey(k) = Named(c)
    BY <1>1, <2>5 DEF SettleKey
  <2>8. Named(c) \in Key
    BY <2>3 DEF Key
  <2> QED
    BY <1>1, <2>3, <2>5, <2>6, <2>7, <2>8
<1>2. CASE k.kind # "named"
  BY <1>2 DEF SettleKey
<1> QED
  BY <1>1, <1>2

LEMMA BackendKeys ==
    ASSUME NEW h \in Key
    PROVE  /\ BackendKey(h) \in Key
           /\ BackendKey(h) # Loopback => permitted /\ BackendKey(h) = h
BY DEF BackendKey, Key

\* Where the default node's directory is to be, is a path.
LEMMA DefaultPaths ==
    ASSUME env \in Environment
    PROVE  DefaultDataDir \subseteq Path
<1>1. /\ env.p2p_dir \subseteq Path /\ env.xdg \subseteq Path /\ env.home \subseteq Path
      /\ {env.app_var, env.package, env.exe} \ {""} \subseteq DOMAIN SafeSegment
      /\ env.exe # ""
      /\ ".local" \in Segment /\ "share" \in Segment /\ "p2p" \in Segment
  BY DirAssumption
<1>2. ResolveApp \in Segment
  BY <1>1, DirAssumption DEF ResolveApp, SanitizeSegment
<1>3. ASSUME NEW a \in Segment, NEW b \in Segment
      PROVE  <<a, b>> \in Seq(Segment)
  BY <1>3
<1>4. ASSUME NEW p \in Path, NEW a \in Segment, NEW b \in Segment
      PROVE  p \o <<a, b>> \in Path
  BY <1>3, ConcatProperties DEF Path
<1>5. XdgDataRoot \subseteq Path
  BY <1>1, <1>4 DEF XdgDataRoot
<1> QED
  BY <1>1, <1>2, <1>4, <1>5 DEF DefaultDataDir

LEMMA RequestedPaths ==
    ASSUME env \in Environment, NEW k \in Key
    PROVE  /\ Requested(k) \subseteq Path
           /\ k.kind = "named" => Requested(k) = {k.dir}
           /\ k = Default => Requested(k) = DefaultDataDir
<1>1. k.dir \in Path
  BY KeyShape DEF Config
<1>2. k.kind = "named" => Requested(k) = {k.dir}
  BY DEF Requested
<1>3. k = Default => Requested(k) = DefaultDataDir
  BY NamedApart DEF Requested
<1> QED
  BY <1>1, <1>2, <1>3, DefaultPaths DEF Requested

\* A sequence of live nodes and the one appended to it.
LEMMA Appended ==
    ASSUME NEW s \in Seq(LiveNode), NEW x \in LiveNode
    PROVE  /\ Append(s, x) \in Seq(LiveNode)
           /\ Len(s) \in Nat /\ Len(Append(s, x)) = Len(s) + 1
           /\ Append(s, x)[Len(s) + 1] = x
           /\ \A m \in 1 .. Len(s) : Append(s, x)[m] = s[m]
           /\ DOMAIN s = 1 .. Len(s) /\ DOMAIN Append(s, x) = 1 .. Len(s) + 1
<1>1. Append(s, x) \in Seq(LiveNode)
  OBVIOUS
<1>2. Len(s) \in Nat /\ Len(Append(s, x)) = Len(s) + 1
  OBVIOUS
<1>3. DOMAIN s = 1 .. Len(s) /\ DOMAIN Append(s, x) = 1 .. Len(Append(s, x))
  BY <1>1
<1>4. Append(s, x)[Len(s) + 1] = x /\ \A m \in 1 .. Len(s) : Append(s, x)[m] = s[m]
  BY AppendProperties
<1> QED
  BY <1>1, <1>2, <1>3, <1>4

\* A sequence of live nodes of which one has been replaced.
LEMMA Replaced ==
    ASSUME NEW s \in Seq(LiveNode), NEW n \in DOMAIN s, NEW x \in LiveNode,
           NEW t, t = [s EXCEPT ![n] = x]
    PROVE  /\ t \in Seq(LiveNode) /\ Len(s) \in Nat
           /\ DOMAIN s = 1 .. Len(s) /\ DOMAIN t = DOMAIN s /\ Len(t) = Len(s)
           /\ t[n] = x /\ \A m \in DOMAIN s : m # n => t[m] = s[m]
<1>1. DOMAIN s = 1 .. Len(s) /\ Len(s) \in Nat /\ \A m \in DOMAIN s : s[m] \in LiveNode
  BY ElementOfSeq
<1>2. DOMAIN t = DOMAIN s /\ t[n] = x /\ \A m \in DOMAIN s : m # n => t[m] = s[m]
  OBVIOUS
<1>3. t = [m \in 1 .. Len(s) |-> t[m]] /\ \A m \in 1 .. Len(s) : t[m] \in LiveNode
  BY <1>1, <1>2
<1>4. t \in [1 .. Len(s) -> LiveNode]
  BY <1>3
<1>5. t \in Seq(LiveNode)
  BY <1>1, <1>4
<1>6. Len(t) = Len(s)
  BY <1>1, <1>2, <1>5
<1> QED
  BY <1>1, <1>2, <1>5, <1>6

\* A call that is answered: the handle's first node is noted, no other's changes.
LEMMA AnsweredNotes ==
    ASSUME NEW h, NEW n, Answered(h, n)
    PROVE  /\ DOMAIN first' = DOMAIN first \cup {h}
           /\ \A k \in DOMAIN first : first'[k] = first[k]
           /\ h \notin DOMAIN first => first'[h] = n
<1>1. CASE h \in DOMAIN first
  BY <1>1 DEF Answered
<1>2. CASE h \notin DOMAIN first
  BY <1>2 DEF Answered, With
<1> QED
  BY <1>1, <1>2

\* A node that is up: one more node, under two names that had none.
LEMMA Entered ==
    ASSUME NEW h, NEW node \in LiveNode, live \in Seq(LiveNode), Missed(h), Enter(h, node)
    PROVE  /\ live' \in Seq(LiveNode)
           /\ Len(live) \in Nat /\ Len(live') = Len(live) + 1
           /\ DOMAIN live = 1 .. Len(live) /\ DOMAIN live' = 1 .. Len(live) + 1
           /\ live'[Len(live) + 1] = node
           /\ \A m \in 1 .. Len(live) : live'[m] = live[m]
           /\ BackendKey(h) \notin DOMAIN nodes /\ SettleKey(BackendKey(h)) \notin DOMAIN nodes
           /\ DOMAIN nodes' = DOMAIN nodes \cup {BackendKey(h), SettleKey(BackendKey(h))}
           /\ nodes'[BackendKey(h)] = Len(live) + 1
           /\ nodes'[SettleKey(BackendKey(h))] = Len(live) + 1
           /\ \A k \in DOMAIN nodes : nodes'[k] = nodes[k]
           /\ Answered(h, Len(live) + 1)
<1> DEFINE key == BackendKey(h)
           settled == SettleKey(BackendKey(h))
           id == Len(live) + 1
           mid == With(nodes, key, id)
<1>1. /\ live' = Append(live, node)
      /\ nodes' = With(mid, settled, id)
      /\ Answered(h, id)
  BY DEF Enter
<1>2. key \notin DOMAIN nodes /\ settled \notin DOMAIN nodes
  BY DEF Missed
<1> HIDE DEF key, settled, id
<1>3. /\ DOMAIN mid = DOMAIN nodes \cup {key} /\ mid[key] = id
      /\ \A k \in DOMAIN nodes : k # key => mid[k] = nodes[k]
  BY DEF With
<1> HIDE DEF mid
<1>4. /\ DOMAIN nodes' = DOMAIN mid \cup {settled} /\ nodes'[settled] = id
      /\ \A k \in DOMAIN mid : k # settled => nodes'[k] = mid[k]
  BY <1>1 DEF With
<1>5. nodes'[key] = id
  BY <1>3, <1>4
<1>6. \A k \in DOMAIN nodes : nodes'[k] = nodes[k]
  BY <1>2, <1>3, <1>4
<1>7. DOMAIN nodes' = DOMAIN nodes \cup {key, settled}
  BY <1>3, <1>4
<1>8. /\ live' \in Seq(LiveNode)
      /\ Len(live) \in Nat /\ Len(live') = Len(live) + 1
      /\ DOMAIN live = 1 .. Len(live) /\ DOMAIN live' = 1 .. Len(live) + 1
      /\ live'[Len(live) + 1] = node
      /\ \A m \in 1 .. Len(live) : live'[m] = live[m]
  BY <1>1, Appended
<1> QED
  BY <1>1, <1>2, <1>4, <1>5, <1>6, <1>7, <1>8 DEF key, settled, id

\* A live node stays where it is.
StaysPut(n) ==
    /\ live'[n].dir = live[n].dir /\ live'[n].home = live[n].home
    /\ live'[n].persists = live[n].persists

\* The secret a node's crypto() finds or makes, and whose it is.
Kept(n, readable) ==
    live[n].persists /\ Fits(live[n].home, live[n].key, readable)

SecretOf(n, readable) ==
    IF Kept(n, readable) THEN credentials[live[n].home].secret ELSE minted + 1

OwnerOf(n, readable) ==
    IF Kept(n, readable) THEN credentials[live[n].home].owner ELSE live[n].key

\* Opening its credentials changes a node's secret and owner and nothing else
\* of the nodes.
LEMMA CryptoOpened ==
    ASSUME TypeInv, NEW n \in DOMAIN live, NEW outcome, NEW readable, OpenCrypto(n, outcome, readable)
    PROVE  /\ SecretOf(n, readable) \in Nat /\ OwnerOf(n, readable) \in Nat
           /\ live' \in Seq(LiveNode)
           /\ DOMAIN live' = DOMAIN live /\ Len(live') = Len(live)
           /\ live'[n].secret = SecretOf(n, readable) /\ live'[n].owner = OwnerOf(n, readable)
           /\ \A m \in DOMAIN live :
                /\ m # n => live'[m] = live[m]
                /\ StaysPut(m) /\ live'[m].key = live[m].key
                /\ live'[m].real = live[m].real
<1>1. /\ live \in Seq(LiveNode) /\ minted \in Nat /\ DOMAIN credentials \subseteq dirs
      /\ \A d \in DOMAIN credentials : credentials[d] \in Credentials
  BY DEF TypeInv
<1>2. live[n] \in LiveNode
  BY <1>1, ElementOfSeq
<1>3. Kept(n, readable) => live[n].home \in DOMAIN credentials
  BY DEF Kept, Fits
<1>4. SecretOf(n, readable) \in Nat
  BY <1>1, <1>3 DEF SecretOf, Credentials
<1>5. OwnerOf(n, readable) \in Nat
  BY <1>1, <1>2, <1>3 DEF OwnerOf, Credentials, LiveNode
<1>6. live' = [live EXCEPT ![n].secret = SecretOf(n, readable), ![n].owner = OwnerOf(n, readable)]
  BY DEF OpenCrypto, SecretOf, OwnerOf, Kept
<1> DEFINE x == [live[n] EXCEPT !.secret = SecretOf(n, readable)]
           y == [x EXCEPT !.owner = OwnerOf(n, readable)]
<1>7. live' = [live EXCEPT ![n] = y]
  BY <1>1, <1>6
<1>8. /\ x \in LiveNode /\ x.secret = SecretOf(n, readable)
      /\ x.dir = live[n].dir /\ x.home = live[n].home /\ x.persists = live[n].persists
      /\ x.key = live[n].key /\ x.real = live[n].real
  BY <1>2, <1>4 DEF LiveNode
<1> HIDE DEF x
<1>9. /\ y \in LiveNode /\ y.owner = OwnerOf(n, readable) /\ y.secret = x.secret
      /\ y.dir = x.dir /\ y.home = x.home /\ y.persists = x.persists
      /\ y.key = x.key /\ y.real = x.real
  BY <1>5, <1>8 DEF LiveNode
<1> HIDE DEF y
<1>10. /\ live' \in Seq(LiveNode) /\ DOMAIN live' = DOMAIN live /\ Len(live') = Len(live)
       /\ live'[n] = y /\ \A m \in DOMAIN live : m # n => live'[m] = live[m]
  BY <1>1, <1>7, <1>9, Replaced
<1> QED
  BY <1>4, <1>5, <1>8, <1>9, <1>10 DEF StaysPut

-----------------------------------------------------------------------------
\* What the file system becomes.
LEMMA MadeDir ==
    ASSUME Whole(dirs, links), NEW p \in Path, NEW n \in 0 .. Len(p), MakeDir(Prefix(p, n))
    PROVE  Whole(dirs', links') /\ Grown(dirs, links, dirs', links')
<1> DEFINE q == Prefix(p, n)
<1>1. q \in Path
  BY PrefixShape
<1>2. /\ q # Root /\ ~Dotted(q) /\ q \notin dirs \cup DOMAIN links
      /\ Prefix(q, Len(q) - 1) \in dirs
      /\ dirs' = dirs \cup {q} /\ links' = links
  BY DEF MakeDir, Parent, fileVars
<1> HIDE DEF q
<1>3. Whole(dirs \cup {q}, links)
  BY <1>1, <1>2, WholeWithDir
<1>4. Whole(dirs', links')
  BY <1>2, <1>3
<1> QED
  BY <1>2, <1>4 DEF Grown

LEMMA MadeLink ==
    ASSUME Whole(dirs, links), NEW p \in Path, NEW target, MakeLink(p, target)
    PROVE  Whole(dirs', links') /\ Grown(dirs, links, dirs', links')
<1>1. /\ p # Root /\ p \notin dirs /\ p \notin DOMAIN links
      /\ Prefix(p, Len(p) - 1) \in dirs /\ dirs' = dirs
      /\ links' = [q \in DOMAIN links \cup {p} |-> IF q = p THEN target ELSE links[q]]
  BY DEF MakeLink, Parent
<1>2. DOMAIN links' = DOMAIN links \cup {p}
  BY <1>1
<1>3. Whole(dirs, links')
  BY <1>1, <1>2, WholeWithLink
<1>4. \A q \in DOMAIN links : q \in DOMAIN links' /\ links'[q] = links[q]
  BY <1>1
<1>5. dirs' = dirs
  BY <1>1
<1> QED
  BY <1>3, <1>4, <1>5 DEF Grown

\* A directory is made, with what was missing of its path: it is there, and the
\* path leads to it - to itself, when it is a settled name without a way back up.
LEMMA MadeHome ==
    ASSUME Whole(dirs, links), NEW dir \in Path, Creatable(dir),
           dirs' = dirs \cup Created(dir), links' = links
    PROVE  /\ Whole(dirs', links') /\ Grown(dirs, links, dirs', links')
           /\ Home(dir) \in dirs'
           /\ Canonicalize(dir)' = {Home(dir)}
           /\ ~Dotted(dir) /\ CanonicalDir(dir) = dir => Home(dir) = dir
<1>1. /\ Making(dir) # {}
      /\ Making(dir) = Makes(dirs, links, dir)
  BY MakingMakes DEF Creatable
<1>2. PICK b, u : /\ Makes(dirs, links, dir) = {[at |-> b, made |-> u]}
                  /\ MadeWell(dirs, links, dir, Len(dir), b, u)
  BY <1>1, MadeThere
<1> DEFINE m == [at |-> b, made |-> u]
<1>3. m.at = b /\ m.made = u
  OBVIOUS
<1> HIDE DEF m
<1>4. Making(dir) = {m}
  BY <1>1, <1>2 DEF m
<1>5. Home(dir) = b /\ Created(dir) = u
  BY <1>3, <1>4 DEF Home, Created
<1>6. Prefix(dir, Len(dir)) = dir
  BY WholePrefix
<1>7. /\ Whole(dirs', links') /\ b \in dirs' /\ Leads(dirs', links', dir) = {b}
      /\ Straight(dirs, links, dir) => b = dir
  BY <1>2, <1>5, <1>6 DEF MadeWell
<1>8. Canonicalize(dir)' = {b}
  BY <1>7, CanonicalizeLeads
<1>9. Grown(dirs, links, dirs', links')
  BY <1>7 DEF Grown
<1>10. ~Dotted(dir) /\ CanonicalDir(dir) = dir => Straight(dirs, links, dir)
  BY CanonicalStraight, CanonicalDirIn
<1> QED
  BY <1>5, <1>7, <1>8, <1>9, <1>10

-----------------------------------------------------------------------------
\* A start in a directory, taken apart: where it runs, with which key, and
\* what it leaves in the file of the identity.
LEMMA Started ==
    ASSUME TypeInv, NEW h \in handles, NEW dir \in Requested(SettleKey(BackendKey(h))),
           NEW outcome \in {"saved", "unsaved", "torn", "failed"}, NEW readable \in BOOLEAN,
           StartPersistent(h, dir, outcome, readable),
           NEW home, home = Home(dir),
           NEW key, key = LoadedIdentity(home, minted + 1, readable)
    PROVE  /\ permitted /\ BackendKey(h) = h /\ h \in Key /\ h # Loopback
           /\ SettleKey(h) \in Key /\ dir \in Requested(SettleKey(h)) /\ dir \in Path
           /\ home \in dirs' /\ home \in Path /\ Canonicalize(dir)' = {home}
           /\ ~Dotted(dir) /\ CanonicalDir(dir) = dir => home = dir
           /\ minted \in Nat /\ minted' \in Nat /\ minted <= minted' /\ key \in 1 .. minted'
           /\ key # minted + 1 =>
                /\ home \in DOMAIN identity /\ identity[home] = key
                /\ outcome \in {"saved", "failed"}
           /\ readable /\ key = minted + 1 =>
                home \notin DOMAIN identity \/ identity[home] = 0
           /\ DOMAIN identity' \subseteq DOMAIN identity \cup {home}
           /\ \A d \in DOMAIN identity :
                /\ d \in DOMAIN identity'
                /\ d # home \/ key # minted + 1 => identity'[d] = identity[d]
           /\ \A d \in DOMAIN identity' : identity'[d] \in 0 .. minted'
           /\ outcome = "saved" => home \in DOMAIN identity' /\ identity'[home] = key
<1>1. /\ env \in Environment /\ Whole(dirs, links) /\ minted \in Nat
      /\ DOMAIN identity \subseteq dirs
      /\ \A d \in DOMAIN identity : identity[d] \in 0 .. minted
      /\ h \in Key
  BY DEF TypeInv
<1>2. /\ BackendKey(h) # Loopback /\ Creatable(dir)
      /\ dirs' = dirs \cup Created(dir) /\ links' = links
  BY DEF StartPersistent
<1>3. permitted /\ BackendKey(h) = h
  BY <1>1, <1>2, BackendKeys
<1>4. SettleKey(h) \in Key
  BY <1>1, Settled
<1>5. dir \in Requested(SettleKey(h)) /\ dir \in Path
  BY <1>1, <1>3, <1>4, RequestedPaths
<1>6. /\ home \in dirs' /\ Canonicalize(dir)' = {home} /\ Whole(dirs', links')
      /\ ~Dotted(dir) /\ CanonicalDir(dir) = dir => home = dir
  BY <1>1, <1>2, <1>5, MadeHome
<1>7. home \in Path
  BY <1>6 DEF Whole
<1>8. \/ home \in DOMAIN identity /\ identity[home] # 0 /\ key = identity[home]
      \/ /\ readable => home \notin DOMAIN identity \/ identity[home] = 0
         /\ key = minted + 1
  BY DEF LoadedIdentity
<1>9. /\ minted' = IF key = minted + 1 THEN minted + 1 ELSE minted
      /\ outcome \in {"unsaved", "torn"} => key = minted + 1
      /\ identity' = CASE outcome = "unsaved" -> identity
                       [] outcome = "torn"    -> Saved(identity, home, 0)
                       [] OTHER               -> Saved(identity, home, key)
  BY DEF StartPersistent
<1>10. /\ minted' \in Nat /\ minted <= minted' /\ key \in 1 .. minted'
  BY <1>1, <1>8, <1>9
<1>11. key # minted + 1 =>
         /\ home \in DOMAIN identity /\ identity[home] = key
         /\ outcome \in {"saved", "failed"}
  BY <1>8, <1>9
<1>12. readable /\ key = minted + 1 =>
         home \notin DOMAIN identity \/ identity[home] = 0
  <2>1. minted + 1 \notin 0 .. minted
    BY <1>1
  <2> QED
    BY <1>1, <1>8, <2>1
<1>13. PICK c \in {0, key} : \/ identity' = identity /\ outcome = "unsaved"
                             \/ /\ identity' = Saved(identity, home, c)
                                /\ c = 0 => outcome = "torn"
                                /\ c = key => outcome # "unsaved"
  <2>1. CASE outcome = "unsaved"
    BY <1>9, <2>1
  <2>2. CASE outcome = "torn"
    <3>1. key # 0
      BY <1>10
    <3> QED
      BY <1>9, <2>2, <3>1
  <2>3. CASE outcome \in {"saved", "failed"}
    <3>1. key # 0
      BY <1>10
    <3> QED
      BY <1>9, <2>3, <3>1
  <2> QED
    BY <2>1, <2>2, <2>3
<1>14. DOMAIN identity' \subseteq DOMAIN identity \cup {home}
  BY <1>13 DEF Saved
<1>15. \A d \in DOMAIN identity : d \in DOMAIN identity' /\ (d # home => identity'[d] = identity[d])
  BY <1>13 DEF Saved
<1>16. ASSUME key # minted + 1, home \in DOMAIN identity
       PROVE  identity'[home] = identity[home]
  <2>1. c = key /\ identity' = Saved(identity, home, key)
    BY <1>11, <1>13, <1>16
  <2>2. identity'[home] = key
    BY <2>1 DEF Saved
  <2> QED
    BY <1>11, <1>16, <2>2
<1>17. outcome = "saved" => home \in DOMAIN identity' /\ identity'[home] = key
  BY <1>13 DEF Saved
<1>18. ASSUME NEW d \in DOMAIN identity'
       PROVE  identity'[d] \in 0 .. minted'
  <2>1. \/ identity'[d] \in {0, key}
        \/ d \in DOMAIN identity /\ identity'[d] = identity[d]
    BY <1>13 DEF Saved
  <2> QED
    BY <1>1, <1>10, <2>1
<1> QED
  BY <1>1, <1>2, <1>3, <1>4, <1>5, <1>6, <1>7, <1>10, <1>11, <1>12, <1>14, <1>15, <1>16, <1>17, <1>18

\* The file system only grows.
LEMMA FilesGrow ==
    TypeInv /\ [Next]_vars => Grown(dirs, links, dirs', links')
<1> SUFFICES ASSUME TypeInv, [Next]_vars
             PROVE  Grown(dirs, links, dirs', links')
  OBVIOUS
<1>1. Whole(dirs, links) /\ handles \subseteq Key
  BY DEF TypeInv
<1>2. ASSUME UNCHANGED fsVars
      PROVE  Grown(dirs, links, dirs', links')
  BY <1>1, <1>2, SameGrown DEF fsVars
<1>3. CASE UNCHANGED vars
  BY <1>2, <1>3 DEF vars
<1>4. ASSUME NEW p \in Name, NEW n \in 1 .. Len(p), MakeDir(Prefix(p, n))
      PROVE  Grown(dirs, links, dirs', links')
  <2>1. p \in Path
    BY RegistryAssumption
  <2>2. n \in 0 .. Len(p)
    BY <2>1, NextPrefix
  <2> QED
    BY <1>1, <1>4, <2>1, <2>2, MadeDir
<1>5. ASSUME NEW link \in Link, MakeLink(link[1], link[2])
      PROVE  Grown(dirs, links, dirs', links')
  <2>1. link[1] \in Path
    BY RegistryAssumption
  <2> QED
    BY <1>1, <1>5, <2>1, MadeLink
<1>6. CASE Moves
  BY <1>4, <1>5, <1>6 DEF Moves
<1>7. ASSUME NEW p \in Name, Open(p)
      PROVE  Grown(dirs, links, dirs', links')
  BY <1>2, <1>7 DEF Open
<1>8. CASE OpenDefault
  BY <1>2, <1>8 DEF OpenDefault
<1>9. ASSUME NEW h \in handles, ReachLive(h) \/ ReachSettled(h)
      PROVE  Grown(dirs, links, dirs', links')
  BY <1>2, <1>9 DEF ReachLive, ReachSettled
<1>10. ASSUME NEW h \in handles, StartLoopback(h)
       PROVE  Grown(dirs, links, dirs', links')
  BY <1>2, <1>10 DEF StartLoopback
<1>14. ASSUME NEW h \in handles, StartEphemeral(h)
       PROVE  Grown(dirs, links, dirs', links')
  <2>1. links' = links
    BY <1>14 DEF StartEphemeral
  <2>2. CASE dirs' = dirs
    BY <1>2, <2>1, <2>2 DEF fsVars
  <2>3. CASE dirs' # dirs
    <3>1. PICK dir \in Requested(SettleKey(BackendKey(h))) : \E n \in 0 .. Len(dir) :
            Creatable(Prefix(dir, n)) /\ dirs' = dirs \cup Created(Prefix(dir, n))
      BY <1>14, <2>3 DEF StartEphemeral
    <3>4. PICK n \in 0 .. Len(dir) :
            Creatable(Prefix(dir, n)) /\ dirs' = dirs \cup Created(Prefix(dir, n))
      BY <3>1
    <3>2. Requested(SettleKey(BackendKey(h))) \subseteq Path
      BY <1>1, BackendKeys, Settled, RequestedPaths DEF TypeInv
    <3>3. Prefix(dir, n) \in Path
      BY <3>2, PrefixShape
    <3> QED
      BY <1>1, <2>1, <3>3, <3>4, MadeHome
  <2> QED
    BY <2>2, <2>3
<1>11. ASSUME NEW h \in handles, NEW dir \in Requested(SettleKey(BackendKey(h))),
              NEW outcome \in {"saved", "unsaved", "torn", "failed"}, NEW readable \in BOOLEAN,
              StartPersistent(h, dir, outcome, readable)
       PROVE  Grown(dirs, links, dirs', links')
  <2>1. dir \in Path
    BY <1>11, Started
  <2>2. Creatable(dir) /\ dirs' = dirs \cup Created(dir) /\ links' = links
    BY <1>11 DEF StartPersistent
  <2> QED
    BY <1>1, <2>1, <2>2, MadeHome
<1>12. ASSUME NEW n \in DOMAIN live, NEW outcome, NEW readable, OpenCrypto(n, outcome, readable)
       PROVE  Grown(dirs, links, dirs', links')
  BY <1>2, <1>12 DEF OpenCrypto
<1>13. CASE Restart
  BY <1>2, <1>13 DEF Restart
<1> QED
  BY <1>3, <1>6, <1>7, <1>8, <1>9, <1>10, <1>11, <1>12, <1>13, <1>14 DEF Next, Step

-----------------------------------------------------------------------------
\* The parts of TypeInv a step disturbs, one by one.
FilesTyped ==
    /\ DOMAIN identity \subseteq dirs /\ DOMAIN credentials \subseteq dirs
    /\ minted \in Nat
    /\ \A d \in DOMAIN identity : identity[d] \in 0 .. minted
    /\ \A d \in DOMAIN credentials : credentials[d] \in Credentials

NamesTyped ==
    /\ handles \subseteq Key /\ DOMAIN nodes \subseteq Key
    /\ live \in Seq(LiveNode)
    /\ \A k \in DOMAIN nodes : nodes[k] \in DOMAIN live
    /\ \A n \in DOMAIN live : live[n].home \in dirs
    /\ DOMAIN first \subseteq handles

CountsTyped == restarts \in 0 .. MaxRestarts /\ failures \in 0 .. MaxFailures

LEMMA TypeParts ==
    TypeInv <=> /\ env \in Environment /\ permitted \in BOOLEAN
                /\ Whole(dirs, links)
                /\ FilesTyped /\ NamesTyped /\ CountsTyped
BY DEF TypeInv, FilesTyped, NamesTyped, CountsTyped

LEMMA EnteredTyped ==
    ASSUME TypeInv, NEW h \in handles, NEW node \in LiveNode, Missed(h), Enter(h, node),
           handles' = handles, dirs \subseteq dirs', node.home \in dirs'
    PROVE  NamesTyped'
<1>1. /\ handles \subseteq Key /\ DOMAIN nodes \subseteq Key /\ live \in Seq(LiveNode)
      /\ \A k \in DOMAIN nodes : nodes[k] \in DOMAIN live
      /\ \A n \in DOMAIN live : live[n].home \in dirs
      /\ DOMAIN first \subseteq handles /\ h \in Key /\ Whole(dirs, links)
  BY DEF TypeInv
<1>2. BackendKey(h) \in Key /\ SettleKey(BackendKey(h)) \in Key
  BY <1>1, BackendKeys, Settled
<1>3. /\ live' \in Seq(LiveNode) /\ Len(live) \in Nat
      /\ DOMAIN live = 1 .. Len(live) /\ DOMAIN live' = 1 .. Len(live) + 1
      /\ live'[Len(live) + 1] = node /\ \A m \in 1 .. Len(live) : live'[m] = live[m]
      /\ DOMAIN nodes' = DOMAIN nodes \cup {BackendKey(h), SettleKey(BackendKey(h))}
      /\ nodes'[BackendKey(h)] = Len(live) + 1
      /\ nodes'[SettleKey(BackendKey(h))] = Len(live) + 1
      /\ \A k \in DOMAIN nodes : nodes'[k] = nodes[k]
      /\ Answered(h, Len(live) + 1)
  BY <1>1, Entered
<1>4. DOMAIN first' = DOMAIN first \cup {h}
  BY <1>3, AnsweredNotes
<1>5. ASSUME NEW k \in DOMAIN nodes'
      PROVE  nodes'[k] \in DOMAIN live'
  <2>1. CASE k \in DOMAIN nodes
    <3>1. nodes'[k] \in 1 .. Len(live)
      BY <1>1, <1>3, <2>1
    <3> QED
      BY <1>3, <3>1
  <2>2. CASE k \notin DOMAIN nodes
    <3>1. nodes'[k] = Len(live) + 1
      BY <1>3, <2>2
    <3> QED
      BY <1>3, <3>1
  <2> QED
    BY <2>1, <2>2
<1>6. ASSUME NEW n \in DOMAIN live'
      PROVE  live'[n].home \in dirs'
  <2>1. CASE n \in DOMAIN live
    BY <1>1, <1>3, <2>1
  <2>2. CASE n \notin DOMAIN live
    <3>1. n = Len(live) + 1
      BY <1>3, <2>2
    <3> QED
      BY <1>3, <3>1
  <2> QED
    BY <2>1, <2>2
<1> QED
  BY <1>1, <1>2, <1>3, <1>4, <1>5, <1>6 DEF NamesTyped

LEMMA ForgottenTyped ==
    ASSUME TypeInv, Forget, restarts < MaxRestarts, failures' \in 0 .. MaxFailures
    PROVE  NamesTyped' /\ CountsTyped'
<1>1. MaxRestarts \in Nat /\ restarts \in 0 .. MaxRestarts
  BY RegistryAssumption DEF TypeInv
<1>2. restarts' \in 0 .. MaxRestarts
  BY <1>1 DEF Forget
<1>3. /\ handles' = {} /\ live' = <<>> /\ DOMAIN nodes' = {} /\ DOMAIN first' = {}
  BY DEF Forget, Nothing
<1>4. live' \in Seq(LiveNode)
  BY <1>3, EmptySeq
<1> QED
  BY <1>2, <1>3, <1>4 DEF NamesTyped, CountsTyped

LEMMA TypeStep ==
    TypeInv /\ [Next]_vars => TypeInv'
<1> SUFFICES ASSUME TypeInv, [Next]_vars
             PROVE  TypeInv'
  OBVIOUS
<1>0. /\ env \in Environment /\ permitted \in BOOLEAN /\ Whole(dirs, links)
      /\ FilesTyped /\ NamesTyped /\ CountsTyped
  BY TypeParts
<1>1. Whole(dirs', links') /\ dirs \subseteq dirs'
  BY FilesGrow DEF Grown
<1>2. env' = env
  BY DEF Next, vars
<1>3. MaxRestarts \in Nat /\ MaxFailures \in Nat
  BY RegistryAssumption
<1>4. ASSUME UNCHANGED fileVars, UNCHANGED minted
      PROVE  FilesTyped'
  BY <1>0, <1>1, <1>4 DEF FilesTyped, fileVars
<1>5. ASSUME UNCHANGED <<handles, nodes, live, first>>
      PROVE  NamesTyped'
  BY <1>0, <1>1, <1>5 DEF NamesTyped
<1>6. ASSUME UNCHANGED <<restarts, failures>>
      PROVE  CountsTyped'
  BY <1>0, <1>6 DEF CountsTyped
<1>7. ASSUME permitted' = permitted, FilesTyped', NamesTyped', CountsTyped'
      PROVE  TypeInv'
  BY <1>0, <1>1, <1>2, <1>7, TypeParts DEF TypeInv, FilesTyped, NamesTyped, CountsTyped
<1>8. CASE UNCHANGED vars
  BY <1>4, <1>5, <1>6, <1>7, <1>8 DEF vars, registryVars
<1>9. CASE Moves
  <2>1. UNCHANGED fileVars /\ UNCHANGED registryVars
    BY <1>9 DEF Moves, MakeDir, MakeLink, fileVars
  <2> QED
    BY <1>4, <1>5, <1>6, <1>7, <2>1 DEF registryVars
<1>10. ASSUME NEW k \in Key, handles' = handles \cup {k},
              UNCHANGED <<fileVars, permitted, nodes, live, restarts, failures, minted, first>>
       PROVE  TypeInv'
  <2>1. NamesTyped'
    BY <1>0, <1>1, <1>10 DEF NamesTyped
  <2> QED
    BY <1>4, <1>6, <1>7, <1>10, <2>1
<1>11. ASSUME NEW p \in Name, Open(p)
       PROVE  TypeInv'
  <2>1. p \in Path
    BY RegistryAssumption
  <2>2. Named(p) \in Key /\ Named(p).kind = "named" /\ Named(p).dir = p
    BY <2>1, NamedApart DEF Key
  <2>3. CanonicalDir(p) \in Path
    BY <1>0, <2>2, Settled
  <2>4. Named(CanonicalDir(p)) \in Key
    BY <2>3 DEF Key
  <2> QED
    BY <1>10, <1>11, <2>4 DEF Open
<1>12. CASE OpenDefault
  <2>1. HostNode \in Key
    BY DEF HostNode, Key
  <2> QED
    BY <1>10, <1>12, <2>1 DEF OpenDefault
<1>13. ASSUME NEW h \in handles, ReachLive(h)
       PROVE  TypeInv'
  <2>1. Answered(h, nodes[BackendKey(h)])
    BY <1>13 DEF ReachLive
  <2>2. DOMAIN first' = DOMAIN first \cup {h}
    BY <2>1, AnsweredNotes
  <2>3. UNCHANGED <<fileVars, permitted, handles, nodes, live, restarts, failures, minted>>
    BY <1>13 DEF ReachLive
  <2>4. NamesTyped'
    BY <1>0, <1>1, <2>2, <2>3 DEF NamesTyped
  <2> QED
    BY <1>4, <1>6, <1>7, <2>3, <2>4
<1>14. ASSUME NEW h \in handles, ReachSettled(h)
       PROVE  TypeInv'
  <2> DEFINE key == BackendKey(h)
             settled == SettleKey(BackendKey(h))
  <2>1. /\ Answered(h, nodes[settled]) /\ settled \in DOMAIN nodes
        /\ nodes' = With(nodes, key, nodes[settled])
        /\ UNCHANGED <<fileVars, permitted, handles, live, restarts, failures, minted>>
    BY <1>14 DEF ReachSettled
  <2>2. DOMAIN first' = DOMAIN first \cup {h}
    BY <2>1, AnsweredNotes
  <2>3. key \in Key
    BY <1>0, BackendKeys DEF NamesTyped
  <2> HIDE DEF key, settled
  <2>4. NamesTyped'
    BY <1>0, <1>1, <2>1, <2>2, <2>3 DEF NamesTyped, With
  <2> QED
    BY <1>4, <1>6, <1>7, <2>1, <2>4
<1>15. ASSUME NEW h \in handles, StartLoopback(h)
       PROVE  TypeInv'
  <2>1. Transient(FALSE, 0) \in LiveNode
    BY RootShape DEF Transient, LiveNode
  <2>2. /\ Missed(h) /\ Enter(h, Transient(FALSE, 0))
        /\ UNCHANGED <<fileVars, permitted, handles, restarts, failures, minted>>
    BY <1>15 DEF StartLoopback
  <2>4. Transient(FALSE, 0).home \in dirs'
    BY <1>1 DEF Transient, Whole
  <2>3. NamesTyped'
    BY <1>1, <2>1, <2>2, <2>4, EnteredTyped
  <2> QED
    BY <1>4, <1>6, <1>7, <2>2, <2>3
<1>16. ASSUME NEW h \in handles, StartEphemeral(h)
       PROVE  TypeInv'
  <2>1. minted \in Nat /\ minted + 1 \in Nat
    BY <1>0 DEF FilesTyped
  <2>2. Transient(TRUE, minted + 1) \in LiveNode
    BY <2>1, RootShape DEF Transient, LiveNode
  <2>3. /\ Missed(h) /\ Enter(h, Transient(TRUE, minted + 1)) /\ minted' = minted + 1
        /\ UNCHANGED <<fileVars, permitted, handles, restarts>>
        /\ \/ failures' = failures
           \/ failures' = failures + 1 /\ failures' <= MaxFailures
    BY <1>16 DEF StartEphemeral
  <2>8. CountsTyped'
    BY <1>0, <1>3, <2>3 DEF CountsTyped
  <2>7. Transient(TRUE, minted + 1).home \in dirs'
    BY <1>1 DEF Transient, Whole
  <2>4. NamesTyped'
    BY <1>1, <2>2, <2>3, <2>7, EnteredTyped
  <2>5. \A d \in DOMAIN identity : identity[d] \in 0 .. minted + 1
    BY <1>0, <2>1 DEF FilesTyped
  <2>6. FilesTyped'
    BY <1>0, <1>1, <2>1, <2>3, <2>5 DEF FilesTyped, fileVars
  <2> QED
    BY <1>7, <2>3, <2>4, <2>6, <2>8
<1>17. ASSUME NEW h \in handles, NEW dir \in Requested(SettleKey(BackendKey(h))),
              NEW outcome \in {"saved", "unsaved", "torn", "failed"}, NEW readable \in BOOLEAN,
              StartPersistent(h, dir, outcome, readable)
       PROVE  TypeInv'
  <2> DEFINE home == Home(dir)
             key  == LoadedIdentity(home, minted + 1, readable)
  <2>1. /\ home \in dirs' /\ home \in Path /\ dir \in Path
        /\ minted' \in Nat /\ key \in 1 .. minted'
        /\ DOMAIN identity' \subseteq DOMAIN identity \cup {home}
        /\ \A d \in DOMAIN identity' : identity'[d] \in 0 .. minted'
    BY <1>17, Started
  <2>2. /\ Missed(h) /\ UNCHANGED <<credentials, permitted>>
        /\ failures' = failures + Fault(outcome # "saved") + Fault(~readable)
        /\ failures' <= MaxFailures
        /\ IF outcome = "torn" THEN restarts < MaxRestarts /\ Forget
           ELSE /\ IF outcome = "failed" THEN UNCHANGED <<live, nodes, first>>
                   ELSE Enter(h, NodeIn(dir, home, key))
                /\ UNCHANGED <<handles, restarts>>
    BY <1>17 DEF StartPersistent
  <2> HIDE DEF home, key
  <2>3. FilesTyped'
    BY <1>0, <1>1, <2>1, <2>2 DEF FilesTyped
  <2>4. failures' \in 0 .. MaxFailures
    BY <1>0, <1>3, <2>2 DEF CountsTyped, Fault
  <2>5. NodeIn(dir, home, key) \in LiveNode /\ NodeIn(dir, home, key).home \in dirs'
    BY <2>1 DEF NodeIn, LiveNode
  <2>6. CASE outcome = "torn"
    <3>1. NamesTyped' /\ CountsTyped'
      BY <2>2, <2>4, <2>6, ForgottenTyped
    <3> QED
      BY <1>7, <2>2, <2>3, <3>1
  <2>7. CASE outcome # "torn"
    <3>1. NamesTyped'
      <4>1. CASE outcome = "failed"
        BY <1>5, <2>2, <2>7, <4>1
      <4>2. CASE outcome # "failed"
        BY <1>1, <2>2, <2>5, <2>7, <4>2, EnteredTyped
      <4> QED
        BY <4>1, <4>2
    <3>2. CountsTyped'
      BY <1>0, <2>2, <2>4, <2>7 DEF CountsTyped
    <3> QED
      BY <1>7, <2>2, <2>3, <3>1, <3>2
  <2> QED
    BY <2>6, <2>7
<1>18. ASSUME NEW n \in DOMAIN live, NEW outcome, NEW readable, OpenCrypto(n, outcome, readable)
       PROVE  TypeInv'
  <2>1. /\ SecretOf(n, readable) \in Nat /\ OwnerOf(n, readable) \in Nat
        /\ live' \in Seq(LiveNode) /\ DOMAIN live' = DOMAIN live
        /\ \A m \in DOMAIN live : live'[m].home = live[m].home
    BY <1>18, CryptoOpened DEF StaysPut
  <2>2. /\ failures' = failures + Fault(outcome # "saved") + Fault(~readable)
        /\ failures' <= MaxFailures
        /\ minted' \in {minted, minted + 1}
        /\ UNCHANGED <<identity, permitted, handles, nodes, restarts, first>>
    BY <1>18 DEF OpenCrypto
  <2>3. \/ credentials' = credentials
        \/ credentials' = Saved(credentials, live[n].home,
                                [owner |-> OwnerOf(n, readable), secret |-> SecretOf(n, readable)])
    BY <1>18 DEF OpenCrypto, OwnerOf, SecretOf, Kept
  <2>4. NamesTyped'
    BY <1>0, <1>1, <2>1, <2>2 DEF NamesTyped
  <2>5. CountsTyped'
    BY <1>0, <1>3, <2>2 DEF CountsTyped, Fault
  <2>6. minted' \in Nat /\ \A d \in DOMAIN identity' : identity'[d] \in 0 .. minted'
    BY <1>0, <2>2 DEF FilesTyped
  <2>7. [owner |-> OwnerOf(n, readable), secret |-> SecretOf(n, readable)] \in Credentials
    BY <2>1 DEF Credentials
  <2>8. \A d \in DOMAIN credentials' : credentials'[d] \in Credentials
    BY <1>0, <2>3, <2>7 DEF FilesTyped, Saved
  <2>9. DOMAIN identity' \subseteq dirs' /\ DOMAIN credentials' \subseteq dirs'
    <3>1. live[n].home \in dirs
      BY <1>0 DEF NamesTyped
    <3> QED
      BY <1>0, <1>1, <2>2, <2>3, <3>1 DEF FilesTyped, Saved
  <2>10. FilesTyped'
    BY <2>6, <2>8, <2>9 DEF FilesTyped
  <2> QED
    BY <1>7, <2>2, <2>4, <2>5, <2>10
<1>19. CASE Restart
  <2>1. /\ Forget /\ restarts < MaxRestarts
        /\ UNCHANGED <<fileVars, permitted, failures, minted>>
    BY <1>19 DEF Restart
  <2>2. NamesTyped' /\ CountsTyped'
    BY <1>0, <2>1, ForgottenTyped DEF CountsTyped
  <2> QED
    BY <1>4, <1>7, <2>1, <2>2
<1> QED
  BY <1>8, <1>9, <1>11, <1>12, <1>13, <1>14, <1>15, <1>16, <1>17, <1>18, <1>19 DEF Next, Step

LEMMA TypeInit ==
    Init => TypeInv
<1> SUFFICES ASSUME Init
             PROVE  TypeInv
  OBVIOUS
<1>1. /\ dirs = {Root} /\ DOMAIN links = {} /\ DOMAIN identity = {} /\ DOMAIN credentials = {}
      /\ env \in Environment /\ permitted \in BOOLEAN
      /\ handles = {} /\ DOMAIN nodes = {} /\ live = <<>>
      /\ restarts = 0 /\ failures = 0 /\ minted = 0 /\ DOMAIN first = {}
  BY DEF Init, Nothing
<1>2. Whole(dirs, links)
  <2>1. ASSUME NEW n \in 0 .. Len(Root)
        PROVE  Prefix(Root, n) = Root
    <3>1. n = 0
      BY RootShape
    <3> QED
      BY <3>1, RootShape, WholePrefix
  <2>2. ~Dotted(Root)
    <3>1. DOMAIN Root = 1 .. 0
      BY RootShape DEF Path
    <3> QED
      BY <3>1 DEF Dotted
  <2> QED
    BY <1>1, <2>1, <2>2, RootShape DEF Whole
<1>3. live \in Seq(LiveNode) /\ DOMAIN live = {}
  <2>1. live \in Seq(LiveNode)
    BY <1>1, EmptySeq
  <2> QED
    BY <1>1, <2>1
<1>4. 0 \in 0 .. MaxRestarts /\ 0 \in 0 .. MaxFailures
  BY RegistryAssumption
<1> QED
  BY <1>1, <1>2, <1>3, <1>4 DEF TypeInv

LEMMA TypeInvariant ==
    Spec => []TypeInv
<1>1. Init => TypeInv
  BY TypeInit
<1>2. TypeInv /\ [Next]_vars => TypeInv'
  BY TypeStep
<1> QED
  BY <1>1, <1>2, PTL DEF Spec

\* TypeOK: the values of the variables; the registry names live nodes only.
THEOREM TypeCorrect ==
    Spec => []TypeOK
<1>1. TypeInv => TypeOK
  <2> SUFFICES ASSUME TypeInv
               PROVE  TypeOK
    OBVIOUS
  <2>1. Key \subseteq Config
    BY KeyShape
  <2> QED
    BY <2>1 DEF TypeInv, TypeOK, Whole
<1> QED
  BY <1>1, TypeInvariant, PTL

-----------------------------------------------------------------------------
\* The node of a name lives where the name leads, if it keeps anything.
NamesLead ==
    \A k \in DOMAIN nodes :
        k.kind = "named" /\ live[nodes[k]].persists =>
            Leads(dirs, links, k.dir) = {live[nodes[k]].home}

\* A handle's first node is still the node of its name.
FirstKept ==
    \A h \in DOMAIN first :
        BackendKey(h) \in DOMAIN nodes /\ nodes[BackendKey(h)] = first[h]

\* A node that keeps something is the node of the name it was started under,
\* to whose directory a handle leads, or the default node in the default
\* directory.  That name is the directory's own, unless it leads back up.
NamedHome(n) ==
    /\ Named(live[n].dir) \in DOMAIN nodes /\ nodes[Named(live[n].dir)] = n
    /\ ~Dotted(live[n].dir) => live[n].dir = live[n].home
    /\ \E h \in handles : h.kind = "named" /\ Leads(dirs, links, h.dir) = {live[n].home}

DefaultHome(n) ==
    /\ Default \in DOMAIN nodes /\ nodes[Default] = n
    /\ \E d \in DefaultDataDir : Leads(dirs, links, d) = {live[n].home}

HomesNamed ==
    \A n \in DOMAIN live : live[n].persists => NamedHome(n) \/ DefaultHome(n)

NamesInv == NamesLead /\ FirstKept /\ HomesNamed

\* What held of names, first nodes and homes still holds of them after a step
\* that takes no name from its node.
LEMMA NamesStay ==
    ASSUME TypeInv, NamesInv, Grown(dirs, links, dirs', links'),
           env' = env, permitted' = permitted, handles \subseteq handles',
           \A k \in DOMAIN nodes : k \in DOMAIN nodes' /\ nodes'[k] = nodes[k],
           \A n \in DOMAIN live : n \in DOMAIN live' /\ StaysPut(n)
    PROVE  /\ \A k \in DOMAIN nodes :
                k.kind = "named" /\ live'[nodes'[k]].persists =>
                    Leads(dirs', links', k.dir) = {live'[nodes'[k]].home}
           /\ \A h \in DOMAIN first :
                BackendKey(h)' \in DOMAIN nodes' /\ nodes'[BackendKey(h)'] = first[h]
           /\ \A n \in DOMAIN live :
                live'[n].persists => NamedHome(n)' \/ DefaultHome(n)'
<1>1. /\ \A k \in DOMAIN nodes : k \in Key /\ nodes[k] \in DOMAIN live
      /\ handles \subseteq Key /\ env \in Environment
  BY DEF TypeInv
<1>2. \A p \in Path : \A d : Leads(dirs, links, p) = {d} => Leads(dirs', links', p) = {d}
  BY LeadsStays
<1>3. ASSUME NEW k \in DOMAIN nodes, k.kind = "named", live'[nodes'[k]].persists
      PROVE  Leads(dirs', links', k.dir) = {live'[nodes'[k]].home}
  <2>1. /\ live'[nodes'[k]].home = live[nodes[k]].home
        /\ live'[nodes'[k]].persists = live[nodes[k]].persists
    BY <1>1 DEF StaysPut
  <2>2. Leads(dirs, links, k.dir) = {live[nodes[k]].home}
    BY <1>3, <2>1 DEF NamesInv, NamesLead
  <2>3. k.dir \in Path
    BY <1>1, <1>3, KeyShape
  <2> QED
    BY <1>2, <2>1, <2>2, <2>3
<1>4. ASSUME NEW h \in DOMAIN first
      PROVE  BackendKey(h)' \in DOMAIN nodes' /\ nodes'[BackendKey(h)'] = first[h]
  <2>1. BackendKey(h)' = BackendKey(h)
    BY DEF BackendKey
  <2>2. BackendKey(h) \in DOMAIN nodes /\ nodes[BackendKey(h)] = first[h]
    BY DEF NamesInv, FirstKept
  <2> QED
    BY <2>1, <2>2
<1>5. ASSUME NEW n \in DOMAIN live, live'[n].persists
      PROVE  NamedHome(n)' \/ DefaultHome(n)'
  <2>1. /\ live'[n].dir = live[n].dir /\ live'[n].home = live[n].home
        /\ live'[n].persists = live[n].persists
    BY DEF StaysPut
  <2>2. NamedHome(n) \/ DefaultHome(n)
    BY <1>5, <2>1 DEF NamesInv, HomesNamed
  <2>3. CASE NamedHome(n)
    <3>1. PICK h \in handles : h.kind = "named" /\ Leads(dirs, links, h.dir) = {live[n].home}
      BY <2>3 DEF NamedHome
    <3>2. h.dir \in Path
      BY <1>1, <3>1, KeyShape
    <3>3. Leads(dirs', links', h.dir) = {live[n].home}
      BY <1>2, <3>1, <3>2
    <3>4. /\ Named(live[n].dir) \in DOMAIN nodes' /\ nodes'[Named(live[n].dir)] = n
          /\ ~Dotted(live[n].dir) => live[n].dir = live[n].home
      BY <2>3 DEF NamedHome
    <3>5. NamedHome(n)'
      BY <2>1, <3>1, <3>3, <3>4 DEF NamedHome, Named, Dotted
    <3> QED
      BY <3>5
  <2>4. CASE DefaultHome(n)
    <3>1. PICK d \in DefaultDataDir : Leads(dirs, links, d) = {live[n].home}
      BY <2>4 DEF DefaultHome
    <3>2. d \in Path
      BY <1>1, DefaultPaths
    <3>3. Leads(dirs', links', d) = {live[n].home}
      BY <1>2, <3>1, <3>2
    <3>4. DefaultDataDir' = DefaultDataDir
      BY DEF DefaultDataDir, XdgDataRoot, ResolveApp
    <3>5. Default \in DOMAIN nodes' /\ nodes'[Default] = n
      BY <2>4 DEF DefaultHome
    <3>6. DefaultHome(n)'
      BY <2>1, <3>3, <3>4, <3>5 DEF DefaultHome, Default
    <3> QED
      BY <3>6
  <2> QED
    BY <2>2, <2>3, <2>4
<1> QED
  BY <1>3, <1>4, <1>5

\* A node that is entered where its names lead, keeps them all.
LEMMA EnteredNames ==
    ASSUME TypeInv, NamesInv, Grown(dirs, links, dirs', links'),
           env' = env, permitted' = permitted, handles' = handles,
           NEW h \in handles, NEW node \in LiveNode, Missed(h), Enter(h, node),
           \A k \in {BackendKey(h), SettleKey(BackendKey(h))} :
               k.kind = "named" /\ node.persists =>
                   Leads(dirs', links', k.dir) = {node.home},
           NEW id, id = Len(live) + 1,
           node.persists => NamedHome(id)' \/ DefaultHome(id)'
    PROVE  NamesInv'
<1> DEFINE key == BackendKey(h)
           settled == SettleKey(BackendKey(h))
<1>1. live \in Seq(LiveNode) /\ DOMAIN first \subseteq handles
  BY DEF TypeInv
<1>2. /\ live' \in Seq(LiveNode) /\ Len(live) \in Nat
      /\ DOMAIN live = 1 .. Len(live) /\ DOMAIN live' = 1 .. Len(live) + 1
      /\ live'[id] = node /\ \A m \in 1 .. Len(live) : live'[m] = live[m]
      /\ key \notin DOMAIN nodes
      /\ DOMAIN nodes' = DOMAIN nodes \cup {key, settled}
      /\ nodes'[key] = id /\ nodes'[settled] = id
      /\ \A k \in DOMAIN nodes : nodes'[k] = nodes[k]
      /\ Answered(h, id)
  BY <1>1, Entered
<1>3. /\ \A k \in {key, settled} : k.kind = "named" /\ node.persists =>
                                     Leads(dirs', links', k.dir) = {node.home}
      /\ node.persists => NamedHome(id)' \/ DefaultHome(id)'
  BY <1>2
<1>4. /\ \A k \in DOMAIN nodes :
           k.kind = "named" /\ live'[nodes'[k]].persists =>
               Leads(dirs', links', k.dir) = {live'[nodes'[k]].home}
      /\ \A k \in DOMAIN first :
           BackendKey(k)' \in DOMAIN nodes' /\ nodes'[BackendKey(k)'] = first[k]
      /\ \A n \in DOMAIN live :
           live'[n].persists => NamedHome(n)' \/ DefaultHome(n)'
  <2>1. \A k \in DOMAIN nodes : k \in DOMAIN nodes' /\ nodes'[k] = nodes[k]
    BY <1>2
  <2>2. \A n \in DOMAIN live : n \in DOMAIN live' /\ StaysPut(n)
    BY <1>2 DEF StaysPut
  <2>3. handles \subseteq handles'
    OBVIOUS
  <2> HIDE DEF key, settled
  <2> QED
    BY <2>1, <2>2, <2>3, NamesStay
<1>5. BackendKey(h)' = key
  BY DEF BackendKey
<1> HIDE DEF key, settled
<1>6. NamesLead'
  <2> SUFFICES ASSUME NEW k \in DOMAIN nodes', k.kind = "named", live'[nodes'[k]].persists
               PROVE  Leads(dirs', links', k.dir) = {live'[nodes'[k]].home}
    BY DEF NamesLead
  <2>1. CASE k \in DOMAIN nodes
    BY <1>4, <2>1
  <2>2. CASE k \notin DOMAIN nodes
    <3>1. k \in {key, settled} /\ nodes'[k] = id
      BY <1>2, <2>2
    <3> QED
      BY <1>2, <1>3, <3>1
  <2> QED
    BY <2>1, <2>2
<1>7. FirstKept'
  <2>1. h \notin DOMAIN first
    BY <1>2 DEF NamesInv, FirstKept, key
  <2>2. /\ DOMAIN first' = DOMAIN first \cup {h} /\ first'[h] = id
        /\ \A k \in DOMAIN first : first'[k] = first[k]
    BY <1>2, <2>1, AnsweredNotes
  <2>3. ASSUME NEW k \in DOMAIN first'
        PROVE  BackendKey(k)' \in DOMAIN nodes' /\ nodes'[BackendKey(k)'] = first'[k]
    <3>1. CASE k = h
      BY <1>2, <1>5, <2>2, <3>1
    <3>2. CASE k # h
      BY <1>4, <2>2, <3>2
    <3> QED
      BY <3>1, <3>2
  <2> QED
    BY <2>3 DEF FirstKept
<1>8. HomesNamed'
  <2> SUFFICES ASSUME NEW n \in DOMAIN live', live'[n].persists
               PROVE  NamedHome(n)' \/ DefaultHome(n)'
    BY DEF HomesNamed
  <2>1. CASE n \in DOMAIN live
    BY <1>4, <2>1
  <2>2. CASE n \notin DOMAIN live
    <3>1. n = id
      BY <1>2, <2>2
    <3>2. node.persists
      BY <1>2, <3>1
    <3> QED
      BY <1>3, <3>1, <3>2
  <2> QED
    BY <2>1, <2>2
<1> QED
  BY <1>6, <1>7, <1>8 DEF NamesInv

LEMMA NamesStep ==
    TypeInv /\ NamesInv /\ [Next]_vars => NamesInv'
<1> SUFFICES ASSUME TypeInv, NamesInv, [Next]_vars
             PROVE  NamesInv'
  OBVIOUS
<1>0. /\ handles \subseteq Key /\ DOMAIN nodes \subseteq Key /\ Whole(dirs, links)
      /\ \A k \in DOMAIN nodes : nodes[k] \in DOMAIN live
      /\ DOMAIN first \subseteq handles
  BY DEF TypeInv
<1>1. Grown(dirs, links, dirs', links')
  BY FilesGrow
<1>2. env' = env
  BY DEF Next, vars
<1>3. ASSUME permitted' = permitted, handles \subseteq handles',
             nodes' = nodes, first' = first, DOMAIN live' = DOMAIN live,
             \A n \in DOMAIN live : StaysPut(n)
      PROVE  NamesInv'
  <2>1. \A k \in DOMAIN nodes : k \in DOMAIN nodes' /\ nodes'[k] = nodes[k]
    BY <1>3
  <2>2. \A n \in DOMAIN live : n \in DOMAIN live' /\ StaysPut(n)
    BY <1>3
  <2>3. /\ \A k \in DOMAIN nodes :
             k.kind = "named" /\ live'[nodes'[k]].persists =>
                 Leads(dirs', links', k.dir) = {live'[nodes'[k]].home}
        /\ \A h \in DOMAIN first :
             BackendKey(h)' \in DOMAIN nodes' /\ nodes'[BackendKey(h)'] = first[h]
        /\ \A n \in DOMAIN live :
             live'[n].persists => NamedHome(n)' \/ DefaultHome(n)'
    BY <1>1, <1>2, <1>3, <2>1, <2>2, NamesStay
  <2>4. NamesLead'
    BY <1>3, <2>3 DEF NamesLead
  <2>5. FirstKept'
    BY <1>3, <2>3 DEF FirstKept
  <2>6. HomesNamed'
    BY <1>3, <2>3 DEF HomesNamed
  <2> QED
    BY <2>4, <2>5, <2>6 DEF NamesInv
<1>4. CASE UNCHANGED vars
  BY <1>3, <1>4 DEF vars, registryVars, StaysPut
<1>5. CASE Moves
  BY <1>3, <1>5 DEF Moves, registryVars, StaysPut
<1>6. ASSUME NEW p \in Name, Open(p)
      PROVE  NamesInv'
  BY <1>3, <1>6 DEF Open, StaysPut
<1>7. CASE OpenDefault
  BY <1>3, <1>7 DEF OpenDefault, StaysPut
<1>8. ASSUME NEW h \in handles, NEW key \in Key, key = BackendKey(h),
             NEW settled \in DOMAIN nodes,
             DOMAIN nodes' = DOMAIN nodes \cup {key}, nodes'[key] = nodes[settled],
             \A k \in DOMAIN nodes : nodes'[k] = nodes[k],
             UNCHANGED <<permitted, handles, live>>,
             Answered(h, nodes[settled]),
             key.kind = "named" /\ live[nodes[settled]].persists =>
                 Leads(dirs, links, key.dir) = {live[nodes[settled]].home}
      PROVE  NamesInv'
  <2>1. \A k \in DOMAIN nodes : k \in DOMAIN nodes' /\ nodes'[k] = nodes[k]
    BY <1>8
  <2>2. \A n \in DOMAIN live : n \in DOMAIN live' /\ StaysPut(n)
    BY <1>8 DEF StaysPut
  <2>3. /\ \A k \in DOMAIN nodes :
             k.kind = "named" /\ live'[nodes'[k]].persists =>
                 Leads(dirs', links', k.dir) = {live'[nodes'[k]].home}
        /\ \A j \in DOMAIN first :
             BackendKey(j)' \in DOMAIN nodes' /\ nodes'[BackendKey(j)'] = first[j]
        /\ \A n \in DOMAIN live :
             live'[n].persists => NamedHome(n)' \/ DefaultHome(n)'
    <3>1. permitted' = permitted /\ handles \subseteq handles'
      BY <1>8
    <3> QED
      BY <1>1, <1>2, <2>1, <2>2, <3>1, NamesStay
  <2>4. BackendKey(h)' = key
    BY <1>8 DEF BackendKey
  <2>5. ASSUME NEW k \in DOMAIN nodes', k.kind = "named", live'[nodes'[k]].persists
        PROVE  Leads(dirs', links', k.dir) = {live'[nodes'[k]].home}
    <3>1. CASE k \in DOMAIN nodes
      BY <2>3, <2>5, <3>1
    <3>2. CASE k \notin DOMAIN nodes
      <4>1. k = key /\ nodes'[k] = nodes[settled] /\ live' = live
        BY <1>8, <3>2
      <4>2. Leads(dirs, links, key.dir) = {live[nodes[settled]].home}
        BY <1>8, <2>5, <4>1
      <4>3. key.dir \in Path
        BY <2>5, <4>1, KeyShape
      <4>4. Leads(dirs', links', key.dir) = {live[nodes[settled]].home}
        BY <1>1, <4>2, <4>3, LeadsStays
      <4> QED
        BY <4>1, <4>4
    <3> QED
      BY <3>1, <3>2
  <2>6. /\ DOMAIN first' = DOMAIN first \cup {h}
        /\ \A j \in DOMAIN first : first'[j] = first[j]
        /\ h \notin DOMAIN first => first'[h] = nodes[settled]
    BY <1>8, AnsweredNotes
  <2>7. ASSUME NEW j \in DOMAIN first'
        PROVE  BackendKey(j)' \in DOMAIN nodes' /\ nodes'[BackendKey(j)'] = first'[j]
    <3>1. CASE j \in DOMAIN first
      BY <2>3, <2>6, <3>1
    <3>2. CASE j \notin DOMAIN first
      BY <1>8, <2>4, <2>6, <3>2
    <3> QED
      BY <3>1, <3>2
  <2>8. NamesLead'
    BY <2>5 DEF NamesLead
  <2>9. FirstKept'
    BY <2>7 DEF FirstKept
  <2>10. HomesNamed'
    BY <1>8, <2>3 DEF HomesNamed
  <2> QED
    BY <2>8, <2>9, <2>10 DEF NamesInv
<1>9. ASSUME NEW h \in handles, ReachLive(h)
      PROVE  NamesInv'
  <2> DEFINE key == BackendKey(h)
  <2>1. /\ key \in DOMAIN nodes /\ Answered(h, nodes[key])
        /\ UNCHANGED <<permitted, handles, nodes, live>>
    BY <1>9 DEF ReachLive
  <2>2. key \in Key
    BY <1>0, <2>1
  <2>3. DOMAIN nodes' = DOMAIN nodes \cup {key} /\ nodes'[key] = nodes[key]
    BY <2>1
  <2>4. key.kind = "named" /\ live[nodes[key]].persists =>
          Leads(dirs, links, key.dir) = {live[nodes[key]].home}
    BY <2>1 DEF NamesInv, NamesLead
  <2>5. \A k \in DOMAIN nodes : nodes'[k] = nodes[k]
    BY <2>1
  <2>6. key = BackendKey(h)
    OBVIOUS
  <2> HIDE DEF key
  <2> QED
    BY <1>8, <2>1, <2>2, <2>3, <2>4, <2>5, <2>6
<1>10. ASSUME NEW h \in handles, ReachSettled(h)
       PROVE  NamesInv'
  <2> DEFINE key == BackendKey(h)
             settled == SettleKey(key)
  <2>1. /\ key \notin DOMAIN nodes /\ settled \in DOMAIN nodes
        /\ nodes' = With(nodes, key, nodes[settled])
        /\ Answered(h, nodes[settled])
        /\ UNCHANGED <<permitted, handles, live>>
    BY <1>10 DEF ReachSettled
  <2>2. key \in Key
    BY <1>0, BackendKeys
  <2>3. /\ DOMAIN nodes' = DOMAIN nodes \cup {key} /\ nodes'[key] = nodes[settled]
        /\ \A k \in DOMAIN nodes : nodes'[k] = nodes[k]
    BY <2>1 DEF With
  <2>4. ASSUME key.kind = "named", live[nodes[settled]].persists
        PROVE  Leads(dirs, links, key.dir) = {live[nodes[settled]].home}
    <3>1. /\ settled = Named(CanonicalDir(key.dir))
          /\ Canonicalize(CanonicalDir(key.dir)) = Canonicalize(key.dir)
      BY <1>0, <2>2, <2>4, Settled
    <3>2. settled.kind = "named" /\ settled.dir = CanonicalDir(key.dir)
      BY <3>1, NamedApart
    <3>3. Leads(dirs, links, settled.dir) = {live[nodes[settled]].home}
      BY <2>1, <2>4, <3>2 DEF NamesInv, NamesLead
    <3>4. Leads(dirs, links, settled.dir) = Leads(dirs, links, key.dir)
      BY <3>1, <3>2, CanonicalizeLeads
    <3> QED
      BY <3>3, <3>4
  <2>5. key = BackendKey(h)
    OBVIOUS
  <2> HIDE DEF key, settled
  <2> QED
    BY <1>8, <2>1, <2>2, <2>3, <2>4, <2>5
<1>11. ASSUME NEW h \in handles, NEW node \in LiveNode, ~node.persists,
              Missed(h), Enter(h, node), permitted' = permitted, handles' = handles
       PROVE  NamesInv'
  <2>1. PICK id : id = Len(live) + 1
    OBVIOUS
  <2> QED
    BY <1>1, <1>2, <1>11, <2>1, EnteredNames
<1>12. ASSUME NEW h \in handles, StartLoopback(h)
       PROVE  NamesInv'
  <2>1. Transient(FALSE, 0) \in LiveNode /\ ~Transient(FALSE, 0).persists
    BY RootShape DEF Transient, LiveNode
  <2> QED
    BY <1>11, <1>12, <2>1 DEF StartLoopback
<1>13. ASSUME NEW h \in handles, StartEphemeral(h)
       PROVE  NamesInv'
  <2>1. minted + 1 \in Nat
    BY DEF TypeInv
  <2>2. Transient(TRUE, minted + 1) \in LiveNode /\ ~Transient(TRUE, minted + 1).persists
    BY <2>1, RootShape DEF Transient, LiveNode
  <2> QED
    BY <1>11, <1>13, <2>2 DEF StartEphemeral
<1>14. ASSUME DOMAIN nodes' = {}, DOMAIN first' = {}, live' = <<>>
       PROVE  NamesInv'
  <2>1. DOMAIN live' = {}
    BY <1>14
  <2> QED
    BY <1>14, <2>1 DEF NamesInv, NamesLead, FirstKept, HomesNamed
<1>15. ASSUME NEW h \in handles, NEW dir \in Requested(SettleKey(BackendKey(h))),
              NEW outcome \in {"saved", "unsaved", "torn", "failed"}, NEW readable \in BOOLEAN,
              StartPersistent(h, dir, outcome, readable)
       PROVE  NamesInv'
  <2> DEFINE home == Home(dir)
             key  == LoadedIdentity(home, minted + 1, readable)
  <2>1. /\ BackendKey(h) = h /\ h \in Key /\ h # Loopback
        /\ SettleKey(h) \in Key /\ dir \in Requested(SettleKey(h)) /\ dir \in Path
        /\ home \in Path /\ Canonicalize(dir)' = {home}
        /\ ~Dotted(dir) /\ CanonicalDir(dir) = dir => home = dir
        /\ minted' \in Nat /\ key \in 1 .. minted' /\ home \in dirs'
    BY <1>15, Started
  <2>2. /\ Missed(h) /\ permitted' = permitted
        /\ IF outcome = "torn" THEN Forget
           ELSE /\ IF outcome = "failed" THEN UNCHANGED <<live, nodes, first>>
                   ELSE Enter(h, NodeIn(dir, home, key))
                /\ UNCHANGED <<handles, restarts>>
    BY <1>15 DEF StartPersistent
  <2> HIDE DEF home, key
  <2>3. CASE outcome = "torn"
    BY <1>14, <2>2, <2>3 DEF Forget, Nothing
  <2>4. CASE outcome = "failed"
    BY <1>3, <2>2, <2>4 DEF StaysPut
  <2>5. CASE outcome \in {"saved", "unsaved"}
    <3> DEFINE node == NodeIn(dir, home, key)
    <3>1. node \in LiveNode /\ node.persists /\ node.home = home /\ node.dir = dir
      BY <2>1 DEF NodeIn, LiveNode
    <3>2. Enter(h, node) /\ handles' = handles
      BY <2>2, <2>5
    <3>3. Leads(dirs', links', dir) = {home}
      BY <2>1, CanonicalizeLeads
    <3>4. PICK id : id = Len(live) + 1
      OBVIOUS
    <3>5. /\ live'[id] = node /\ Len(live) \in Nat
          /\ h \in DOMAIN nodes' /\ nodes'[h] = id
          /\ SettleKey(h) \in DOMAIN nodes' /\ nodes'[SettleKey(h)] = id
      <4> HIDE DEF node
      <4>1. live \in Seq(LiveNode)
        BY DEF TypeInv
      <4> QED
        BY <2>1, <2>2, <3>1, <3>2, <3>4, <4>1, Entered
    <3> HIDE DEF node
    <3>6. CASE h.kind = "named"
      <4>1. /\ CanonicalDir(h.dir) \in Path
            /\ SettleKey(h) = Named(CanonicalDir(h.dir))
            /\ CanonicalDir(CanonicalDir(h.dir)) = CanonicalDir(h.dir)
        BY <1>0, <2>1, <3>6, Settled
      <4>2. dir = CanonicalDir(h.dir)
        BY <2>1, <4>1, NamedApart, RequestedPaths DEF TypeInv
      <4>3. ~Dotted(dir) => home = dir
        BY <2>1, <4>1, <4>2
      <4>4. h.dir \in Path
        BY <2>1, <3>6, KeyShape
      <4>5. Leads(dirs', links', h.dir) = {home}
        <5> DEFINE c == CanonicalIn(dirs, links, h.dir)
        <5>1. Leads(dirs', links', c) = Leads(dirs', links', h.dir)
          BY <1>1, <4>4, CanonicalLeads
        <5>2. c = dir
          BY <4>2, CanonicalDirIn
        <5> QED
          BY <3>3, <5>1, <5>2
      <4>6. \A k \in {BackendKey(h), SettleKey(BackendKey(h))} :
              k.kind = "named" /\ node.persists => Leads(dirs', links', k.dir) = {node.home}
        BY <2>1, <3>1, <3>3, <4>1, <4>2, <4>5, NamedApart
      <4>7. NamedHome(id)'
        <5>1. Named(dir) = SettleKey(h)
          BY <4>1, <4>2
        <5>2. live'[id].home = home /\ live'[id].dir = dir
          BY <3>1, <3>5
        <5>3. /\ Named(live'[id].dir) \in DOMAIN nodes' /\ nodes'[Named(live'[id].dir)] = id
              /\ ~Dotted(live'[id].dir) => live'[id].dir = live'[id].home
          BY <3>5, <4>3, <5>1, <5>2
        <5>4. \E j \in handles' : j.kind = "named" /\ Leads(dirs', links', j.dir) = {live'[id].home}
          BY <3>2, <3>6, <4>5, <5>2
        <5> QED
          BY <5>3, <5>4 DEF NamedHome, Named, Dotted
      <4> QED
        BY <1>1, <1>2, <2>2, <3>1, <3>2, <3>4, <4>6, <4>7, EnteredNames
    <3>7. CASE h.kind # "named"
      <4>1. h = Default /\ SettleKey(h) = h
        BY <1>0, <2>1, <3>7, KeyShape, Settled
      <4>2. dir \in DefaultDataDir
        BY <2>1, <4>1, RequestedPaths DEF TypeInv
      <4>3. \A k \in {BackendKey(h), SettleKey(BackendKey(h))} :
              k.kind = "named" /\ node.persists => Leads(dirs', links', k.dir) = {node.home}
        BY <2>1, <3>7, <4>1
      <4>4. DefaultHome(id)'
        <5>1. DefaultDataDir' = DefaultDataDir
          BY <1>2 DEF DefaultDataDir, XdgDataRoot, ResolveApp
        <5>2. live'[id].home = home
          BY <3>1, <3>5
        <5>3. Default \in DOMAIN nodes' /\ nodes'[Default] = id
          BY <3>5, <4>1
        <5>4. \E d \in DefaultDataDir' : Leads(dirs', links', d) = {live'[id].home}
          BY <3>3, <4>2, <5>1, <5>2
        <5> QED
          BY <5>3, <5>4 DEF DefaultHome, Default
      <4> QED
        BY <1>1, <1>2, <2>2, <3>1, <3>2, <3>4, <4>3, <4>4, EnteredNames
    <3> QED
      BY <3>6, <3>7
  <2> QED
    BY <2>3, <2>4, <2>5
<1>16. ASSUME NEW n \in DOMAIN live, NEW outcome, NEW readable, OpenCrypto(n, outcome, readable)
       PROVE  NamesInv'
  <2>1. DOMAIN live' = DOMAIN live /\ \A m \in DOMAIN live : StaysPut(m)
    BY <1>16, CryptoOpened
  <2>2. UNCHANGED <<permitted, handles, nodes, first>>
    BY <1>16 DEF OpenCrypto
  <2> QED
    BY <1>3, <2>1, <2>2
<1>17. CASE Restart
  BY <1>14, <1>17 DEF Restart, Forget, Nothing
<1> QED
  BY <1>4, <1>5, <1>6, <1>7, <1>9, <1>10, <1>12, <1>13, <1>15, <1>16, <1>17 DEF Next, Step

LEMMA NamesInit ==
    Init => NamesInv
<1> SUFFICES ASSUME Init
             PROVE  NamesInv
  OBVIOUS
<1>1. DOMAIN nodes = {} /\ DOMAIN first = {} /\ live = <<>>
  BY DEF Init, Nothing
<1>2. DOMAIN live = {}
  BY <1>1
<1> QED
  BY <1>1, <1>2 DEF NamesInv, NamesLead, FirstKept, HomesNamed

\* Names lead to where their nodes live, in every state.
THEOREM NamesLeadHome ==
    Spec => [](TypeInv /\ NamesInv)
<1>1. Init => TypeInv /\ NamesInv
  BY TypeInit, NamesInit
<1>2. TypeInv /\ NamesInv /\ [Next]_vars => TypeInv' /\ NamesInv'
  BY TypeStep, NamesStep
<1> QED
  BY <1>1, <1>2, PTL DEF Spec

\* HandlesPinned: a handle reaches the node it woke, and that node lives in
\* the directory the handle's name leads to by now (or keeps nothing).
THEOREM HandlesStayPinned ==
    Spec => []HandlesPinned
<1>1. TypeInv /\ NamesInv => HandlesPinned
  <2> SUFFICES ASSUME TypeInv, NamesInv, NEW h \in DOMAIN first
               PROVE  /\ BackendKey(h) \in DOMAIN nodes
                      /\ nodes[BackendKey(h)] = first[h]
                      /\ BackendKey(h).kind = "named" /\ live[first[h]].persists =>
                           live[first[h]].home = CanonicalDir(h.dir)
    BY DEF HandlesPinned
  <2>1. BackendKey(h) \in DOMAIN nodes /\ nodes[BackendKey(h)] = first[h]
    BY DEF NamesInv, FirstKept
  <2>2. h \in Key /\ Whole(dirs, links)
    BY DEF TypeInv
  <2>3. ASSUME BackendKey(h).kind = "named", live[first[h]].persists
        PROVE  CanonicalDir(h.dir) = live[first[h]].home
    <3>1. BackendKey(h) # Loopback
      BY <2>3, NamedApart
    <3>2. BackendKey(h) = h
      BY <2>2, <3>1, BackendKeys
    <3>3. Leads(dirs, links, h.dir) = {live[first[h]].home}
      BY <2>1, <2>3, <3>2 DEF NamesInv, NamesLead
    <3>4. h.dir \in Path
      BY <2>2, <2>3, <3>2, KeyShape
    <3>5. CanonicalIn(dirs, links, h.dir) = live[first[h]].home
      BY <2>2, <3>3, <3>4, CanonicalWhenThere
    <3> QED
      BY <3>5, CanonicalDirIn
  <2> QED
    BY <2>1, <2>3
<1> QED
  BY <1>1, NamesLeadHome, PTL

-----------------------------------------------------------------------------
\* Nobody has named the default node's directory: no handle's name resolves to
\* where the default node keeps its files.
DefaultApart ==
    \A h \in handles : h.kind = "named" =>
        \A d \in DefaultDataDir : CanonicalDir(h.dir) # CanonicalDir(d)

\* OneNodePerDirectory: in any state in which nobody has named the default
\* node's directory (the run registry_default shows what happens otherwise),
\* two live nodes share a directory only where one was started under a name
\* whose missing part led back up.
THEOREM OneNodeUnlessDefaultNamed ==
    Spec => [](DefaultApart => OneNodePerDirectory)
<1>1. TypeInv /\ NamesInv => (DefaultApart => OneNodePerDirectory)
  <2> SUFFICES ASSUME TypeInv, NamesInv, DefaultApart,
                      NEW n \in DOMAIN live, NEW m \in DOMAIN live,
                      live[n].persists, live[m].persists, live[n].home = live[m].home,
                      ~Dotted(live[n].dir), ~Dotted(live[m].dir)
               PROVE  n = m
    BY DEF OneNodePerDirectory
  <2>1. Whole(dirs, links) /\ handles \subseteq Key /\ env \in Environment
    BY DEF TypeInv
  <2>2. NamedHome(n) \/ DefaultHome(n)
    BY DEF NamesInv, HomesNamed
  <2>3. NamedHome(m) \/ DefaultHome(m)
    BY DEF NamesInv, HomesNamed
  <2>4. ASSUME NEW i \in DOMAIN live, NEW j \in DOMAIN live, live[i].home = live[j].home,
               NamedHome(i), DefaultHome(j)
        PROVE  FALSE
    <3>1. PICK h \in handles : h.kind = "named" /\ Leads(dirs, links, h.dir) = {live[i].home}
      BY <2>4 DEF NamedHome
    <3>2. PICK d \in DefaultDataDir : Leads(dirs, links, d) = {live[i].home}
      BY <2>4 DEF DefaultHome
    <3>3. h.dir \in Path /\ d \in Path
      BY <2>1, <3>1, KeyShape, DefaultPaths
    <3>6. \A p \in Path : \A x : Leads(dirs, links, p) = {x} => CanonicalIn(dirs, links, p) = x
      BY <2>1, CanonicalWhenThere
    <3>4. /\ CanonicalIn(dirs, links, h.dir) = live[i].home
          /\ CanonicalIn(dirs, links, d) = live[i].home
      BY <3>1, <3>2, <3>3, <3>6
    <3>5. CanonicalDir(h.dir) = CanonicalDir(d)
      BY <3>4, CanonicalDirIn
    <3> QED
      BY <3>1, <3>5 DEF DefaultApart
  <2>5. CASE NamedHome(n) /\ NamedHome(m)
    BY <2>5 DEF NamedHome
  <2>6. CASE DefaultHome(n) /\ DefaultHome(m)
    BY <2>6 DEF DefaultHome
  <2> QED
    BY <2>2, <2>3, <2>4, <2>5, <2>6
<1> QED
  BY <1>1, NamesLeadHome, PTL

-----------------------------------------------------------------------------
\* Where no networking is permitted the registry holds the broker or nothing,
\* there is a node only if it does, and no file has been written.
SandInv ==
    ~permitted =>
        /\ identity = Nothing /\ credentials = Nothing
        /\ DOMAIN nodes \subseteq {Loopback}
        /\ Len(live) <= 1 /\ \A n \in DOMAIN live : ~live[n].real
        /\ Loopback \notin DOMAIN nodes => live = <<>>

LEMMA SandStep ==
    TypeInv /\ SandInv /\ [Next]_vars => SandInv'
<1> SUFFICES ASSUME TypeInv, SandInv, [Next]_vars, ~permitted'
             PROVE  /\ identity' = Nothing /\ credentials' = Nothing
                    /\ DOMAIN nodes' \subseteq {Loopback}
                    /\ Len(live') <= 1 /\ \A n \in DOMAIN live' : ~live'[n].real
                    /\ Loopback \notin DOMAIN nodes' => live' = <<>>
  BY DEF SandInv
<1> DEFINE Goal == /\ identity' = Nothing /\ credentials' = Nothing
                   /\ DOMAIN nodes' \subseteq {Loopback}
                   /\ Len(live') <= 1 /\ \A n \in DOMAIN live' : ~live'[n].real
                   /\ Loopback \notin DOMAIN nodes' => live' = <<>>
<1>0. permitted' = permitted
  <2>1. CASE UNCHANGED vars
    BY <2>1 DEF vars, registryVars
  <2>2. CASE Moves
    BY <2>2 DEF Moves, registryVars
  <2>3. ASSUME NEW h, ReachLive(h) \/ ReachSettled(h) \/ StartLoopback(h) \/ StartEphemeral(h)
        PROVE  permitted' = permitted
    BY <2>3 DEF ReachLive, ReachSettled, StartLoopback, StartEphemeral
  <2>4. ASSUME NEW h, NEW dir, NEW outcome, NEW readable,
               StartPersistent(h, dir, outcome, readable)
        PROVE  permitted' = permitted
    BY <2>4 DEF StartPersistent
  <2>5. ASSUME NEW n, NEW outcome, NEW readable, OpenCrypto(n, outcome, readable)
        PROVE  permitted' = permitted
    BY <2>5 DEF OpenCrypto
  <2>6. CASE (\E p \in Name : Open(p)) \/ OpenDefault \/ Restart
    BY <2>6 DEF Open, OpenDefault, Restart
  <2> QED
    BY <2>1, <2>2, <2>3, <2>4, <2>5, <2>6 DEF Next, Step
<1>1. /\ identity = Nothing /\ credentials = Nothing
      /\ DOMAIN nodes \subseteq {Loopback}
      /\ Len(live) <= 1 /\ \A n \in DOMAIN live : ~live[n].real
      /\ Loopback \notin DOMAIN nodes => live = <<>>
  BY <1>0 DEF SandInv
<1>2. \A h : BackendKey(h) = Loopback /\ SettleKey(BackendKey(h)) = Loopback
  BY <1>0, NamedApart DEF BackendKey, SettleKey
<1>3. ASSUME UNCHANGED fileVars, UNCHANGED <<nodes, live>>
      PROVE  Goal
  BY <1>1, <1>3 DEF fileVars
<1>4. CASE UNCHANGED vars
  BY <1>3, <1>4 DEF vars, registryVars
<1>5. CASE Moves
  BY <1>3, <1>5 DEF Moves, MakeDir, MakeLink, registryVars, fileVars
<1>6. ASSUME NEW p \in Name, Open(p)
      PROVE  Goal
  BY <1>3, <1>6 DEF Open
<1>7. CASE OpenDefault
  BY <1>3, <1>7 DEF OpenDefault
<1>8. ASSUME NEW h \in handles, ReachLive(h)
      PROVE  Goal
  BY <1>3, <1>8 DEF ReachLive
<1>9. ASSUME NEW h \in handles, ReachSettled(h)
      PROVE  Goal
  BY <1>2, <1>9 DEF ReachSettled
<1>10. ASSUME NEW h \in handles, StartLoopback(h)
       PROVE  Goal
  <2> DEFINE node == Transient(FALSE, 0)
  <2>1. node \in LiveNode /\ ~node.real
    BY RootShape DEF Transient, LiveNode
  <2>2. Missed(h) /\ Enter(h, node) /\ UNCHANGED fileVars
    BY <1>10 DEF StartLoopback
  <2>3. live = <<>>
    BY <1>1, <1>2, <2>2 DEF Missed
  <2>4. live \in Seq(LiveNode)
    BY DEF TypeInv
  <2> HIDE DEF node
  <2>5. /\ Len(live) \in Nat /\ Len(live') = Len(live) + 1
        /\ DOMAIN live' = 1 .. Len(live) + 1 /\ live'[Len(live) + 1] = node
        /\ DOMAIN nodes' = DOMAIN nodes \cup {BackendKey(h), SettleKey(BackendKey(h))}
    BY <2>1, <2>2, <2>4, Entered
  <2>6. Len(live) = 0
    BY <2>3
  <2>7. Len(live') = 1 /\ DOMAIN live' = {1} /\ live'[1] = node
    BY <2>5, <2>6
  <2>8. DOMAIN nodes' = {Loopback}
    <3>1. DOMAIN nodes' = DOMAIN nodes \cup {Loopback}
      BY <1>2, <2>5
    <3> QED
      BY <1>1, <3>1
  <2>9. Len(live') <= 1 /\ \A n \in DOMAIN live' : ~live'[n].real
    BY <2>1, <2>7
  <2> QED
    BY <1>1, <2>2, <2>8, <2>9 DEF fileVars
<1>11. ASSUME NEW h \in handles, StartEphemeral(h)
       PROVE  Goal
  BY <1>2, <1>11 DEF StartEphemeral
<1>12. ASSUME NEW h \in handles, NEW dir, NEW outcome, NEW readable,
              StartPersistent(h, dir, outcome, readable)
       PROVE  Goal
  BY <1>2, <1>12 DEF StartPersistent
<1>13. ASSUME NEW n \in DOMAIN live, NEW outcome, NEW readable, OpenCrypto(n, outcome, readable)
       PROVE  Goal
  BY <1>1, <1>13 DEF OpenCrypto
<1>14. CASE Restart
  <2>1. live' = <<>> /\ DOMAIN nodes' = {} /\ UNCHANGED fileVars
    BY <1>14 DEF Restart, Forget, Nothing
  <2>2. Len(live') = 0 /\ DOMAIN live' = {}
    BY <2>1
  <2> QED
    BY <1>1, <2>1, <2>2 DEF fileVars
<1> QED
  BY <1>4, <1>5, <1>6, <1>7, <1>8, <1>9, <1>10, <1>11, <1>12, <1>13, <1>14 DEF Next, Step

\* SandboxStaysLocal: a host that permits no networking runs the one broker
\* and writes no identity and no credentials, whatever is opened.
THEOREM SandboxIsLocal ==
    Spec => []SandboxStaysLocal
<1>1. Init => SandInv
  <2> SUFFICES ASSUME Init
               PROVE  SandInv
    OBVIOUS
  <2>1. live = <<>> /\ DOMAIN nodes = {} /\ identity = Nothing /\ credentials = Nothing
    BY DEF Init, Nothing
  <2>2. Len(live) = 0 /\ DOMAIN live = {}
    BY <2>1
  <2> QED
    BY <2>1, <2>2 DEF SandInv
<1>2. TypeInv /\ SandInv /\ [Next]_vars => SandInv'
  BY SandStep
<1>3. SandInv => SandboxStaysLocal
  BY DEF SandInv, SandboxStaysLocal
<1> QED
  BY <1>1, <1>2, <1>3, TypeInvariant, PTL DEF Spec

-----------------------------------------------------------------------------
\* In a directory that was not disturbed, every identity presented is the one
\* in its file, so are the secrets, and the live nodes have that identity; two
\* live nodes in one directory disturb it.
KeepInv ==
    /\ \A a \in presented : a[1] \notin disturbed =>
         /\ a[1] \in DOMAIN identity /\ identity[a[1]] = a[2] /\ a[2] # 0
         /\ a[3] # 0 => /\ a[1] \in DOMAIN credentials
                        /\ credentials[a[1]].owner = a[2] /\ credentials[a[1]].secret = a[3]
    /\ \A a \in presented, n \in DOMAIN live :
         live[n].persists /\ live[n].home = a[1] /\ a[1] \notin disturbed => live[n].key = a[2]
    /\ \A n, m \in DOMAIN live :
         n # m /\ live[n].persists /\ live[m].persists /\ live[n].home = live[m].home =>
             live[n].home \in disturbed
    /\ \A n \in DOMAIN live : live[n].owner \in {0, live[n].key}

\* What it says of the live nodes.
KeepLive ==
    /\ \A a \in presented, n \in DOMAIN live :
         live[n].persists /\ live[n].home = a[1] /\ a[1] \notin disturbed => live[n].key = a[2]
    /\ \A n, m \in DOMAIN live :
         n # m /\ live[n].persists /\ live[m].persists /\ live[n].home = live[m].home =>
             live[n].home \in disturbed
    /\ \A n \in DOMAIN live : live[n].owner \in {0, live[n].key}

\* What a new node adds: the nodes there were stay as they were, and if it runs
\* where one of them does, the directory is disturbed.
LEMMA KeepEntered ==
    ASSUME TypeInv, KeepInv, NEW h, NEW node \in LiveNode, node.owner = 0,
           Missed(h), Enter(h, node), disturbed \subseteq disturbed',
           node.persists /\ Taken(node.home) => node.home \in disturbed',
           \A a \in presented' : a \in presented \/ (node.persists /\ a[1] = node.home),
           \A a \in presented' :
               node.persists /\ node.home = a[1] /\ a[1] \notin disturbed' => node.key = a[2]
    PROVE  KeepLive'
<1>1. live \in Seq(LiveNode)
  BY DEF TypeInv
<1>2. /\ Len(live) \in Nat /\ DOMAIN live = 1 .. Len(live) /\ DOMAIN live' = 1 .. Len(live) + 1
      /\ live'[Len(live) + 1] = node /\ \A m \in 1 .. Len(live) : live'[m] = live[m]
  BY <1>1, Entered
<1> DEFINE id == Len(live) + 1
<1>3. ASSUME NEW n \in DOMAIN live'
      PROVE  /\ n = id => live'[n] = node
             /\ n # id => n \in DOMAIN live /\ live'[n] = live[n]
  BY <1>2
<1> HIDE DEF id
<1>4. /\ \A a \in presented, n \in DOMAIN live :
           live[n].persists /\ live[n].home = a[1] /\ a[1] \notin disturbed => live[n].key = a[2]
      /\ \A n, m \in DOMAIN live :
           n # m /\ live[n].persists /\ live[m].persists /\ live[n].home = live[m].home =>
               live[n].home \in disturbed
      /\ \A n \in DOMAIN live : live[n].owner \in {0, live[n].key}
  BY DEF KeepInv
\* A live node in the new one's directory.
<1>5. ASSUME NEW n \in DOMAIN live, live[n].persists, node.persists, live[n].home = node.home
      PROVE  node.home \in disturbed'
  BY <1>5 DEF Taken
<1>6. ASSUME NEW a \in presented', NEW n \in DOMAIN live',
             live'[n].persists, live'[n].home = a[1], a[1] \notin disturbed'
      PROVE  live'[n].key = a[2]
  <2>1. CASE n = id
    BY <1>3, <1>6, <2>1
  <2>2. CASE n # id
    <3>1. n \in DOMAIN live /\ live'[n] = live[n]
      BY <1>3, <2>2
    <3>2. ~(node.persists /\ a[1] = node.home)
      BY <1>5, <1>6, <3>1
    <3> QED
      BY <1>4, <1>6, <3>1, <3>2
  <2> QED
    BY <2>1, <2>2
<1>7. ASSUME NEW n \in DOMAIN live', NEW m \in DOMAIN live', n # m,
             live'[n].persists, live'[m].persists, live'[n].home = live'[m].home
      PROVE  live'[n].home \in disturbed'
  <2>1. ASSUME NEW i \in DOMAIN live', i # id
        PROVE  i \in DOMAIN live /\ live'[i] = live[i]
    BY <1>3, <2>1
  <2>2. live'[id] = node \/ id \notin DOMAIN live'
    BY <1>3
  <2>3. CASE n = id
    BY <1>5, <1>7, <2>1, <2>2, <2>3
  <2>4. CASE m = id
    BY <1>5, <1>7, <2>1, <2>2, <2>4
  <2>5. CASE n # id /\ m # id
    BY <1>4, <1>7, <2>1, <2>5
  <2> QED
    BY <2>3, <2>4, <2>5
<1>8. \A n \in DOMAIN live' : live'[n].owner \in {0, live'[n].key}
  BY <1>3, <1>4
<1> QED
  BY <1>6, <1>7, <1>8 DEF KeepLive

LEMMA KeepStep ==
    TypeInv /\ KeepInv /\ [Next]_vars => KeepInv'
<1> SUFFICES ASSUME TypeInv, KeepInv, [Next]_vars
             PROVE  KeepInv'
  OBVIOUS
<1>0. live \in Seq(LiveNode) /\ Whole(dirs, links)
  BY DEF TypeInv
<1>1. ASSUME UNCHANGED <<fileVars, historyVars, live>>
      PROVE  KeepInv'
  BY <1>1 DEF KeepInv, fileVars, historyVars
<1>2. CASE UNCHANGED vars
  BY <1>1, <1>2 DEF vars, registryVars
<1>3. CASE Moves
  BY <1>1, <1>3 DEF Moves, MakeDir, MakeLink, registryVars
<1>4. ASSUME NEW p \in Name, Open(p)
      PROVE  KeepInv'
  BY <1>1, <1>4 DEF Open
<1>5. CASE OpenDefault
  BY <1>1, <1>5 DEF OpenDefault
<1>6. ASSUME NEW h \in handles, ReachLive(h) \/ ReachSettled(h)
      PROVE  KeepInv'
  BY <1>1, <1>6 DEF ReachLive, ReachSettled
<1>7. ASSUME NEW h, NEW node \in LiveNode, node.owner = 0, ~node.persists,
             Missed(h), Enter(h, node), UNCHANGED <<fileVars, historyVars>>
      PROVE  KeepInv'
  <2>1. /\ identity' = identity /\ credentials' = credentials
        /\ presented' = presented /\ disturbed' = disturbed
    BY <1>7 DEF fileVars, historyVars
  <2>2. KeepLive'
    BY <1>7, <2>1, KeepEntered
  <2> QED
    BY <2>1, <2>2 DEF KeepInv, KeepLive
<1>8. ASSUME NEW h \in handles, StartLoopback(h)
      PROVE  KeepInv'
  <2> DEFINE node == Transient(FALSE, 0)
  <2>1. node \in LiveNode /\ node.owner = 0 /\ ~node.persists
    BY RootShape DEF Transient, LiveNode
  <2> HIDE DEF node
  <2>2. Missed(h) /\ Enter(h, node) /\ UNCHANGED <<fileVars, historyVars>>
    BY <1>8 DEF StartLoopback, node
  <2> QED
    BY <1>7, <2>1, <2>2
<1>9. ASSUME NEW h \in handles, StartEphemeral(h)
      PROVE  KeepInv'
  <2> DEFINE node == Transient(TRUE, minted + 1)
  <2>1. minted + 1 \in Nat
    BY DEF TypeInv
  <2>2. node \in LiveNode /\ node.owner = 0 /\ ~node.persists
    BY <2>1, RootShape DEF Transient, LiveNode
  <2> HIDE DEF node
  <2>3. Missed(h) /\ Enter(h, node) /\ UNCHANGED <<fileVars, historyVars>>
    BY <1>9 DEF StartEphemeral, node
  <2> QED
    BY <1>7, <2>2, <2>3
<1>10. ASSUME NEW h \in handles, NEW dir \in Requested(SettleKey(BackendKey(h))),
              NEW outcome \in {"saved", "unsaved", "torn", "failed"}, NEW readable \in BOOLEAN,
              StartPersistent(h, dir, outcome, readable)
       PROVE  KeepInv'
  <2> DEFINE home == Home(dir)
             key  == LoadedIdentity(home, minted + 1, readable)
             node == NodeIn(dir, home, key)
  <2>1. /\ home \in Path /\ dir \in Path
        /\ minted \in Nat /\ minted' \in Nat /\ key \in 1 .. minted'
        /\ key # minted + 1 => home \in DOMAIN identity /\ identity[home] = key
        /\ readable /\ key = minted + 1 => home \notin DOMAIN identity \/ identity[home] = 0
        /\ \A d \in DOMAIN identity :
             /\ d \in DOMAIN identity'
             /\ d # home \/ key # minted + 1 => identity'[d] = identity[d]
        /\ outcome = "saved" => home \in DOMAIN identity' /\ identity'[home] = key
    BY <1>10, Started
  <2>2. /\ Missed(h) /\ credentials' = credentials
        /\ IF outcome = "torn" THEN Forget
           ELSE IF outcome = "failed" THEN UNCHANGED <<live, nodes, first>>
                ELSE Enter(h, node)
        /\ presented' = IF outcome = "saved" THEN presented \cup {<<home, key, 0>>}
                        ELSE presented
        /\ disturbed' =
             IF ~readable \/ (outcome \in {"saved", "unsaved"} /\ Taken(home))
             THEN disturbed \cup {home} ELSE disturbed
    BY <1>10 DEF StartPersistent
  <2>3. node \in LiveNode /\ node.home = home /\ node.key = key /\ node.owner = 0
        /\ node.persists
    BY <2>1 DEF NodeIn, LiveNode
  <2> DEFINE new == <<home, key, 0>>
  <2>4. new[1] = home /\ new[2] = key /\ new[3] = 0 /\ key # 0
    BY <2>1
  <2> HIDE DEF home, key, node
  <2>5. disturbed \subseteq disturbed' /\ (~readable => home \in disturbed')
    BY <2>2
  <2>6. /\ presented \subseteq presented' /\ presented' \subseteq presented \cup {new}
        /\ presented' # presented => outcome = "saved"
    BY <2>2
  <2> HIDE DEF new
  \* A directory somebody was presented from has its identity already.
  <2>7. ASSUME NEW a \in presented, a[1] \notin disturbed'
        PROVE  /\ a[1] \in DOMAIN identity' /\ identity'[a[1]] = a[2] /\ a[2] # 0
               /\ a[1] = home => key = a[2]
    <3>1. a[1] \in DOMAIN identity /\ identity[a[1]] = a[2] /\ a[2] # 0
      BY <2>5, <2>7 DEF KeepInv
    <3>2. CASE a[1] = home
      <4>1. readable
        BY <2>5, <2>7, <3>2
      <4> QED
        BY <2>1, <3>1, <3>2, <4>1
    <3>3. CASE a[1] # home
      BY <2>1, <3>1, <3>3
    <3> QED
      BY <3>1, <3>2, <3>3
  <2>8. ASSUME NEW a \in presented', a[1] \notin disturbed'
        PROVE  /\ a[1] \in DOMAIN identity' /\ identity'[a[1]] = a[2] /\ a[2] # 0
               /\ a[1] = home => key = a[2]
               /\ a[3] # 0 => /\ a[1] \in DOMAIN credentials'
                              /\ credentials'[a[1]].owner = a[2]
                              /\ credentials'[a[1]].secret = a[3]
    <3>1. CASE a \in presented
      <4>1. a[3] # 0 => /\ a[1] \in DOMAIN credentials
                        /\ credentials[a[1]].owner = a[2] /\ credentials[a[1]].secret = a[3]
        BY <2>5, <2>8, <3>1 DEF KeepInv
      <4> QED
        BY <2>2, <2>7, <2>8, <3>1, <4>1
    <3>2. CASE a \notin presented
      <4>1. a = new /\ outcome = "saved"
        BY <2>6, <3>2
      <4> QED
        BY <2>1, <2>4, <4>1
    <3> QED
      BY <3>1, <3>2
  <2>9. KeepLive' => KeepInv'
    BY <2>8 DEF KeepInv, KeepLive
  <2>10. CASE outcome = "torn"
    <3>1. live' = <<>>
      BY <2>2, <2>10 DEF Forget
    <3>2. DOMAIN live' = {}
      BY <3>1
    <3> QED
      BY <2>9, <3>2 DEF KeepLive
  <2>11. CASE outcome = "failed"
    <3>1. live' = live /\ presented' = presented
      BY <2>2, <2>11
    <3>2. KeepLive'
      BY <2>5, <3>1 DEF KeepInv, KeepLive
    <3> QED
      BY <2>9, <3>2
  <2>12. CASE outcome \in {"saved", "unsaved"}
    <3>1. Enter(h, node)
      BY <2>2, <2>12
    <3>2. node.persists /\ Taken(node.home) => node.home \in disturbed'
      BY <2>2, <2>3, <2>12
    <3>3. \A a \in presented' : a \in presented \/ (node.persists /\ a[1] = node.home)
      BY <2>3, <2>4, <2>6
    <3>4. \A a \in presented' :
            node.persists /\ node.home = a[1] /\ a[1] \notin disturbed' => node.key = a[2]
      BY <2>3, <2>8
    <3>5. KeepLive'
      BY <2>2, <2>3, <2>5, <3>1, <3>2, <3>3, <3>4, KeepEntered
    <3> QED
      BY <2>9, <3>5
  <2> QED
    BY <2>10, <2>11, <2>12
<1>11. ASSUME NEW n \in DOMAIN live, NEW outcome, NEW readable, OpenCrypto(n, outcome, readable)
       PROVE  KeepInv'
  <2> DEFINE home == live[n].home
             key  == live[n].key
             kept == Kept(n, readable)
             saved == live[n].persists /\ outcome = "saved"
             file == [owner |-> OwnerOf(n, readable), secret |-> SecretOf(n, readable)]
             new  == <<home, key, SecretOf(n, readable)>>
  <2>1. /\ DOMAIN live' = DOMAIN live
        /\ live'[n].owner = OwnerOf(n, readable)
        /\ \A m \in DOMAIN live :
             /\ m # n => live'[m] = live[m]
             /\ live'[m].persists = live[m].persists
             /\ live'[m].home = live[m].home /\ live'[m].key = live[m].key
    BY <1>11, CryptoOpened DEF StaysPut
  <2>2. /\ identity' = identity
        /\ credentials' = IF kept \/ ~saved THEN credentials
                          ELSE Saved(credentials, home, file)
        /\ presented' = IF ~saved \/ <<home, key, 0>> \notin presented
                        THEN presented ELSE presented \cup {new}
        /\ disturbed' = IF readable THEN disturbed ELSE disturbed \cup {home}
        /\ saved => live[n].persists
    BY <1>11 DEF OpenCrypto, OwnerOf, SecretOf, Kept
  <2>3. kept => /\ home \in DOMAIN credentials /\ credentials[home].owner = key
                /\ OwnerOf(n, readable) = key
                /\ SecretOf(n, readable) = credentials[home].secret
    BY DEF Kept, Fits, OwnerOf, SecretOf
  <2>4. ~kept => OwnerOf(n, readable) = key
    BY DEF OwnerOf
  <2>5. new[1] = home /\ new[2] = key /\ new[3] = SecretOf(n, readable)
    OBVIOUS
  <2>6. file.owner = OwnerOf(n, readable) /\ file.secret = SecretOf(n, readable)
    OBVIOUS
  \* Whoever was presented with a secret from here finds it again.
  <2>7. ASSUME NEW a \in presented, a[1] = home, live[n].persists, a[3] # 0,
               home \notin disturbed, readable
        PROVE  kept
    <3>1. a[1] \in DOMAIN credentials /\ credentials[a[1]].owner = a[2]
      BY <2>7 DEF KeepInv
    <3>2. key = a[2]
      BY <2>7 DEF KeepInv
    <3> QED
      BY <2>7, <3>1, <3>2 DEF Kept, Fits
  <2> HIDE DEF kept, file, new, saved
  <2>13. disturbed \subseteq disturbed' /\ (~readable => home \in disturbed')
    BY <2>2
  <2>8. ASSUME NEW a \in presented, a[1] \notin disturbed'
        PROVE  /\ a[1] \in DOMAIN identity' /\ identity'[a[1]] = a[2] /\ a[2] # 0
               /\ a[3] # 0 => /\ a[1] \in DOMAIN credentials'
                              /\ credentials'[a[1]].owner = a[2]
                              /\ credentials'[a[1]].secret = a[3]
    <3>1. /\ a[1] \in DOMAIN identity /\ identity[a[1]] = a[2] /\ a[2] # 0
          /\ a[3] # 0 => /\ a[1] \in DOMAIN credentials
                         /\ credentials[a[1]].owner = a[2] /\ credentials[a[1]].secret = a[3]
      BY <2>8, <2>13 DEF KeepInv
    <3>2. CASE credentials' = credentials
      BY <2>2, <3>1, <3>2
    <3>3. CASE credentials' # credentials
      <4>1. /\ ~kept /\ live[n].persists
            /\ credentials' = Saved(credentials, home, file)
        BY <2>2, <3>3
      <4>2. a[3] # 0 => a[1] # home
        BY <2>7, <2>8, <2>13, <4>1
      <4>3. \A d \in DOMAIN credentials : d # home =>
              d \in DOMAIN credentials' /\ credentials'[d] = credentials[d]
        BY <4>1 DEF Saved
      <4> QED
        BY <2>2, <3>1, <4>2, <4>3
    <3> QED
      BY <3>2, <3>3
  <2>9. \A a \in presented, m \in DOMAIN live' :
          live'[m].persists /\ live'[m].home = a[1] /\ a[1] \notin disturbed' =>
              live'[m].key = a[2]
    BY <2>1, <2>13 DEF KeepInv
  <2>14. \A i, j \in DOMAIN live' :
           i # j /\ live'[i].persists /\ live'[j].persists /\ live'[i].home = live'[j].home =>
               live'[i].home \in disturbed'
    BY <2>1, <2>13 DEF KeepInv
  <2>10. \A m \in DOMAIN live' : live'[m].owner \in {0, live'[m].key}
    <3> SUFFICES ASSUME NEW m \in DOMAIN live'
                 PROVE  live'[m].owner \in {0, live'[m].key}
      OBVIOUS
    <3>1. CASE m = n
      BY <2>1, <2>3, <2>4, <3>1
    <3>2. CASE m # n
      BY <2>1, <3>2 DEF KeepInv
    <3> QED
      BY <3>1, <3>2
  <2>11. CASE presented' = presented
    BY <2>8, <2>9, <2>10, <2>11, <2>14 DEF KeepInv
  <2>12. CASE presented' # presented
    <3>1. /\ saved /\ <<home, key, 0>> \in presented /\ presented' = presented \cup {new}
      BY <2>2, <2>12
    <3>2. PICK b \in presented : b[1] = home /\ b[2] = key
      <4>1. <<home, key, 0>>[1] = home /\ <<home, key, 0>>[2] = key
        OBVIOUS
      <4> QED
        BY <3>1, <4>1
    <3>3. home \notin disturbed' =>
            home \in DOMAIN identity' /\ identity'[home] = key /\ key # 0
      BY <2>8, <3>2
    <3>4. /\ home \in DOMAIN credentials' /\ credentials'[home].owner = key
          /\ credentials'[home].secret = SecretOf(n, readable)
      <4>1. CASE kept
        BY <2>2, <2>3, <4>1
      <4>2. CASE ~kept
        <5>1. credentials' = Saved(credentials, home, file)
          BY <2>2, <3>1, <4>2
        <5>2. home \in DOMAIN credentials' /\ credentials'[home] = file
          BY <5>1 DEF Saved
        <5> QED
          BY <2>4, <2>6, <4>2, <5>2
      <4> QED
        BY <4>1, <4>2
    <3>5. \A m \in DOMAIN live' :
            live'[m].persists /\ live'[m].home = home /\ home \notin disturbed' =>
                live'[m].key = key
      BY <2>9, <3>2
    <3>6. ASSUME NEW a \in presented', a[1] \notin disturbed'
          PROVE  /\ a[1] \in DOMAIN identity' /\ identity'[a[1]] = a[2] /\ a[2] # 0
                 /\ a[3] # 0 => /\ a[1] \in DOMAIN credentials'
                                /\ credentials'[a[1]].owner = a[2]
                                /\ credentials'[a[1]].secret = a[3]
                 /\ \A m \in DOMAIN live' :
                      live'[m].persists /\ live'[m].home = a[1] => live'[m].key = a[2]
      <4>1. CASE a \in presented
        BY <2>8, <2>9, <3>6, <4>1
      <4>2. CASE a = new
        BY <2>5, <3>3, <3>4, <3>5, <3>6, <4>2
      <4> QED
        BY <3>1, <4>1, <4>2
    <3> QED
      BY <2>10, <2>14, <3>6 DEF KeepInv
  <2> QED
    BY <2>11, <2>12
<1>12. CASE Restart
  <2>1. live' = <<>> /\ UNCHANGED <<fileVars, historyVars>>
    BY <1>12 DEF Restart, Forget
  <2>2. DOMAIN live' = {}
    BY <2>1
  <2> QED
    BY <2>1, <2>2 DEF KeepInv, fileVars, historyVars
<1> QED
  BY <1>2, <1>3, <1>4, <1>5, <1>6, <1>8, <1>9, <1>10, <1>11, <1>12 DEF Next, Step

\* IdentityKept: over restarts, files that cannot be written and files torn
\* half-way, a directory keeps the identity and the encryption secret it once
\* presented, as long as every file that is there can be read and no two nodes
\* of one run share it; and a node uses no credentials but its own identity's.
THEOREM IdentityIsKept ==
    Spec => []IdentityKept
<1>1. Init => KeepInv
  <2> SUFFICES ASSUME Init
               PROVE  KeepInv
    OBVIOUS
  <2>1. live = <<>> /\ presented = {}
    BY DEF Init
  <2>2. DOMAIN live = {}
    BY <2>1
  <2> QED
    BY <2>1, <2>2 DEF KeepInv
<1>2. TypeInv /\ KeepInv /\ [Next]_vars => KeepInv'
  BY KeepStep
<1>3. KeepInv => IdentityKept
  BY DEF KeepInv, IdentityKept
<1> QED
  BY <1>1, <1>2, <1>3, TypeInvariant, PTL DEF Spec
=============================================================================
