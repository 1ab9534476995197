------------------------------ MODULE DataDir -------------------------------
(***************************************************************************)
(* The directories nodes live in: the file system as far as a node's name  *)
(* depends on it, and the two private files of a data directory.           *)
(*                                                                         *)
(* A path is the sequence of its segments from the root; ".." is one that  *)
(* leads back up.  `dirs` are the directories there are, `links` the       *)
(* symbolic links with the directory they point at (which may not be there *)
(* yet); no link points at a path that runs through another or back up.    *)
(* Nothing is ever moved or deleted.                                       *)
(*                                                                         *)
(* `env` is what the process is told of where its user keeps things; it    *)
(* decides the directory of the node nobody named.  A path that may be     *)
(* missing is a set of at most one path.                                   *)
(*                                                                         *)
(* identity[d] is the key in d's identity.key, 0 for a file that is no key *)
(* any more; credentials[d] is what d's credentials.key holds.             *)
(***************************************************************************)
EXTENDS Integers, Sequences, FiniteSetsExt

CONSTANTS Segment,             \* what a path is made of
          Environment,         \* the values env may have
          SafeSegment          \* application id -> the path segment made of it

VARIABLES dirs, links, identity, credentials, env

fsVars == <<dirs, links>>

fileVars == <<identity, credentials>>

Path == Seq(Segment)

ASSUME DirAssumption ==
    /\ {".local", "share", "p2p", ".."} \subseteq Segment
    /\ \A raw \in DOMAIN SafeSegment : SafeSegment[raw] \in Segment
    /\ \A e \in Environment :
         /\ e.p2p_dir \cup e.xdg \cup e.home \subseteq Path
         /\ {e.app_var, e.package, e.exe} \ {""} \subseteq DOMAIN SafeSegment
         /\ e.exe # ""

Root == <<>>

Prefix(p, n) == SubSeq(p, 1, n)

Extends(p, q) == Len(q) <= Len(p) /\ Prefix(p, Len(q)) = q

Dotted(p) == \E n \in DOMAIN p : p[n] = ".."

Parent(p) == IF p = Root THEN Root ELSE Prefix(p, Len(p) - 1)

\* The directory at p, when there is one.
Follow(p) ==
    IF p \in dirs THEN {p}
    ELSE IF p \in DOMAIN links THEN {links[p]} \cap dirs ELSE {}

\* One step of the walk: from base, over segment s.
Onto(base, s) == IF s = ".." THEN {Parent(base)} ELSE Follow(Append(base, s))

\* fs::canonicalize: the directory p leads to through all links, or nothing.
Canonicalize(p) ==
    LET walk[n \in 0 .. Len(p)] ==
          IF n = 0 THEN {Root}
          ELSE UNION {Onto(base, p[n]) : base \in walk[n - 1]}
    IN  walk[Len(p)]

\* The segments of p that exist.
Existing(p) == Max({n \in 0 .. Len(p) : Canonicalize(Prefix(p, n)) # {}})

\* canonical_dir: the part that exists is resolved, the rest carried literally;
\* where the rest has a "..", the whole name is kept as it was spelled.
CanonicalDir(p) ==
    LET e == Existing(p)
        missing == SubSeq(p, e + 1, Len(p)) IN
    IF Dotted(missing) THEN p
    ELSE (CHOOSE d \in Canonicalize(Prefix(p, e)) : TRUE) \o missing

\* One step of create_dir_all from `at`, with `made` already made: what is not
\* there is made, and a link that leads nowhere is in the way.
MakeOnto(at, made, s) ==
    LET q == Append(at, s)
        known == dirs \cup made IN
    IF s = ".." THEN {[at |-> Parent(at), made |-> made]}
    ELSE IF q \in known THEN {[at |-> q, made |-> made]}
    ELSE IF q \in DOMAIN links
    THEN {[at |-> d, made |-> made] : d \in {links[q]} \cap known}
    ELSE {[at |-> q, made |-> made \cup {q}]}

\* create_dir_all: where p leads and what is made on the way, or nothing.
Making(p) ==
    LET walk[n \in 0 .. Len(p)] ==
          IF n = 0 THEN {[at |-> Root, made |-> {}]}
          ELSE UNION {MakeOnto(m.at, m.made, p[n]) : m \in walk[n - 1]}
    IN  walk[Len(p)]

\* ensure_dir fails where a link that leads nowhere is in the way.
Creatable(p) == Making(p) # {}

\* Mutant: what leads to the directory is made, the directory is not.
CreatedAbove(p) == UNION {m.made \ {m.at} : m \in Making(p)}

Created(p) == UNION {m.made : m \in Making(p)}

\* The directory p leads to once it has been made.
Home(p) == (CHOOSE m \in Making(p) : TRUE).at

\* Somebody makes a directory, or a link at a path that is still free.
MakeDir(p) ==
    /\ p # Root /\ ~Dotted(p) /\ p \notin dirs \cup DOMAIN links
    /\ Parent(p) \in dirs
    /\ dirs' = dirs \cup {p}
    /\ UNCHANGED <<links, fileVars>>

MakeLink(p, target) ==
    /\ p # Root /\ ~Dotted(p) /\ p \notin dirs \cup DOMAIN links
    /\ Parent(p) \in dirs
    /\ ~Dotted(target) /\ ~Extends(target, p)
    /\ \A q \in DOMAIN links : ~Extends(links[q], p) /\ ~Extends(target, q)
    /\ links' = [q \in DOMAIN links \cup {p} |->
                    IF q = p THEN target ELSE links[q]]
    /\ UNCHANGED <<dirs, fileVars>>

-----------------------------------------------------------------------------
\* Alphanumerics, ".", "-" and "_" stay; everything else becomes "-".
SanitizeSegment(raw) == SafeSegment[raw]

\* $NOETA_P2P_APP, the program's package, or the file name of the executable.
ResolveApp ==
    SanitizeSegment(IF env.app_var # "" THEN env.app_var
                    ELSE IF env.package # "" THEN env.package ELSE env.exe)

XdgDataRoot ==
    IF env.xdg # {} THEN env.xdg ELSE {h \o <<".local", "share">> : h \in env.home}

\* default_data_dir: nothing where there is no home either.
DefaultDataDir ==
    IF env.p2p_dir # {} THEN env.p2p_dir
    ELSE {root \o <<ResolveApp, "p2p">> : root \in XdgDataRoot}

-----------------------------------------------------------------------------
Saved(files, d, content) ==
    [e \in DOMAIN files \cup {d} |-> IF e = d THEN content ELSE files[e]]

\* Mutant: a start makes a new identity every time.
LoadedIdentityFresh(d, fresh, readable) == fresh

\* load_or_create_identity: a file that cannot be read, or is no key, counts as
\* none, and a new key is made.
LoadedIdentity(d, fresh, readable) ==
    IF readable /\ d \in DOMAIN identity /\ identity[d] # 0 THEN identity[d] ELSE fresh

\* Mutant: whatever credentials are there are used.
FitsAny(d, key, readable) == readable /\ d \in DOMAIN credentials

\* load_or_create_credentials: the file must be readable and of this identity.
Fits(d, key, readable) ==
    readable /\ d \in DOMAIN credentials /\ credentials[d].owner = key
=============================================================================
