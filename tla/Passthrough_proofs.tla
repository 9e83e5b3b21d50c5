--------------------------- MODULE Passthrough_proofs ---------------------------
(***************************************************************************)
(* Proof of LaunchPreparation's PassthroughIsSound: whatever the host, a   *)
(* container is started with a consistent view of it.  The mounts and the  *)
(* variables are followed through the steps that add them, and joined at   *)
(* the end.                                                                *)
(***************************************************************************)
EXTENDS LaunchPreparation_proofs, SequenceTheorems

-----------------------------------------------------------------------------
(* What a container is given of the host. *)

IsList(ms) == \E S : ms \in Seq(S)

Dests(ms) == {m.destination : m \in ToSet(ms)}

Distinct(ms) ==
    \A i, j \in DOMAIN ms : ms[i].destination = ms[j].destination => i = j

\* Two mounts at one place: one of them is in X.
Apart(ms, X) ==
    \A i, j \in DOMAIN ms :
        ms[i].destination = ms[j].destination => i = j \/ ms[i] \in X \/ ms[j] \in X

ApartFrom(ms, ns, X) ==
    \A m \in ToSet(ms), n \in ToSet(ns) : m.destination = n.destination => m \in X \/ n \in X

TemporaryFile == <<"temporaryFile">>

NotTemporary(ms) == \A m \in ToSet(ms) : m.source # TemporaryFile

\* Mounts that are put one after the other.
LEMMA ListsJoin ==
  ASSUME NEW a, NEW b, IsList(a), IsList(b)
  PROVE  /\ IsList(a \o b)
         /\ ToSet(a \o b) = ToSet(a) \cup ToSet(b)
         /\ Dests(a \o b) = Dests(a) \cup Dests(b)
         /\ \A X : Apart(a, X) /\ Apart(b, X) /\ ApartFrom(a, b, X) => Apart(a \o b, X)
         /\ Distinct(a) /\ Distinct(b) /\ Dests(a) \cap Dests(b) = {} => Distinct(a \o b)
  <1>1. PICK A : a \in Seq(A)
    BY DEF IsList
  <1>2. PICK B : b \in Seq(B)
    BY DEF IsList
  <1> DEFINE S == A \cup B
  <1>3. a \in Seq(S) /\ b \in Seq(S)
    BY <1>1, <1>2, SeqMonotonic
  <1> HIDE DEF S
  <1>4. /\ a \o b \in Seq(S)
        /\ Len(a \o b) = Len(a) + Len(b)
        /\ \A i \in 1 .. Len(a) + Len(b) :
              (a \o b)[i] = IF i <= Len(a) THEN a[i] ELSE b[i - Len(a)]
    BY <1>3, ConcatProperties
  <1>5. /\ DOMAIN a = 1 .. Len(a) /\ DOMAIN b = 1 .. Len(b)
        /\ Len(a) \in Nat /\ Len(b) \in Nat
        /\ DOMAIN (a \o b) = 1 .. Len(a) + Len(b)
    BY <1>3, <1>4
  <1> DEFINE ab == a \o b
  <1>6. \A i \in DOMAIN a : i \in DOMAIN ab /\ ab[i] = a[i]
    BY <1>4, <1>5
  <1>7. \A i \in DOMAIN b : i + Len(a) \in DOMAIN ab /\ ab[i + Len(a)] = b[i]
    BY <1>4, <1>5
  <1>8. \A i \in DOMAIN ab : \/ i \in DOMAIN a /\ ab[i] = a[i]
                             \/ i - Len(a) \in DOMAIN b /\ ab[i] = b[i - Len(a)]
    BY <1>4, <1>5
  <1>9. IsList(ab)
    BY <1>4 DEF IsList
  <1> HIDE DEF ab
  <1>10. ToSet(ab) = ToSet(a) \cup ToSet(b)
    BY <1>6, <1>7, <1>8 DEF ToSet
  <1>11. Dests(ab) = Dests(a) \cup Dests(b)
    BY <1>10 DEF Dests
  <1>12. ASSUME NEW X, Apart(a, X), Apart(b, X), ApartFrom(a, b, X) PROVE Apart(ab, X)
    <2>1. SUFFICES ASSUME NEW i \in DOMAIN ab, NEW j \in DOMAIN ab,
                          ab[i].destination = ab[j].destination
                   PROVE  i = j \/ ab[i] \in X \/ ab[j] \in X
      BY DEF Apart
    <2>2. /\ \A x \in DOMAIN a : a[x] \in ToSet(a)
          /\ \A x \in DOMAIN b : b[x] \in ToSet(b)
      BY DEF ToSet
    <2>3. i \in Nat /\ j \in Nat
      BY <1>5 DEF ab
    <2>4. CASE i \in DOMAIN a /\ ab[i] = a[i] /\ j \in DOMAIN a /\ ab[j] = a[j]
      BY <1>12, <2>1, <2>4 DEF Apart
    <2>5. CASE i \in DOMAIN a /\ ab[i] = a[i] /\ j - Len(a) \in DOMAIN b /\ ab[j] = b[j - Len(a)]
      BY <1>12, <2>1, <2>2, <2>5 DEF ApartFrom
    <2>6. CASE i - Len(a) \in DOMAIN b /\ ab[i] = b[i - Len(a)] /\ j \in DOMAIN a /\ ab[j] = a[j]
      BY <1>12, <2>1, <2>2, <2>6 DEF ApartFrom
    <2>7. CASE /\ i - Len(a) \in DOMAIN b /\ ab[i] = b[i - Len(a)]
               /\ j - Len(a) \in DOMAIN b /\ ab[j] = b[j - Len(a)]
      <3>1. i - Len(a) = j - Len(a) \/ ab[i] \in X \/ ab[j] \in X
        BY <1>12, <2>1, <2>7 DEF Apart
      <3>2. QED
        BY <1>5, <2>3, <3>1
    <2>8. QED
      BY <1>8, <2>4, <2>5, <2>6, <2>7
  <1>13. ASSUME Distinct(a), Distinct(b), Dests(a) \cap Dests(b) = {} PROVE Distinct(ab)
    <2>1. Apart(a, {}) /\ Apart(b, {})
      BY <1>13 DEF Apart, Distinct
    <2>2. ApartFrom(a, b, {})
      BY <1>13 DEF ApartFrom, Dests
    <2>3. Apart(ab, {})
      BY <1>12, <2>1, <2>2
    <2>4. QED
      BY <2>3 DEF Apart, Distinct
  <1>14. QED
    BY <1>9, <1>10, <1>11, <1>12, <1>13 DEF ab

\* One mount and none.
LEMMA ShortLists ==
  /\ IsList(<<>>) /\ ToSet(<<>>) = {} /\ Dests(<<>>) = {} /\ Distinct(<<>>)
  /\ \A m : /\ IsList(<<m>>) /\ ToSet(<<m>>) = {m} /\ Dests(<<m>>) = {m.destination}
            /\ Distinct(<<m>>)
  /\ \A m, n : /\ IsList(<<m, n>>) /\ ToSet(<<m, n>>) = {m, n}
               /\ Dests(<<m, n>>) = {m.destination, n.destination}
               /\ m.destination # n.destination => Distinct(<<m, n>>)
  <1>1. IsList(<<>>) /\ ToSet(<<>>) = {} /\ Dests(<<>>) = {} /\ Distinct(<<>>)
    <2>1. <<>> \in Seq({})
      OBVIOUS
    <2>2. QED
      BY <2>1 DEF IsList, ToSet, Dests, Distinct
  <1>2. ASSUME NEW m
        PROVE  /\ IsList(<<m>>) /\ ToSet(<<m>>) = {m} /\ Dests(<<m>>) = {m.destination}
               /\ Distinct(<<m>>)
    <2>1. <<m>> \in Seq({m})
      OBVIOUS
    <2>2. ToSet(<<m>>) = {m}
      BY DEF ToSet
    <2>3. QED
      BY <2>1, <2>2 DEF IsList, Dests, Distinct
  <1>3. ASSUME NEW m, NEW n
        PROVE  /\ IsList(<<m, n>>) /\ ToSet(<<m, n>>) = {m, n}
               /\ Dests(<<m, n>>) = {m.destination, n.destination}
               /\ m.destination # n.destination => Distinct(<<m, n>>)
    <2>1. <<m, n>> \in Seq({m, n})
      OBVIOUS
    <2>2. ToSet(<<m, n>>) = {m, n}
      BY DEF ToSet
    <2>3. QED
      BY <2>1, <2>2 DEF IsList, Dests, Distinct
  <1>4. QED
    BY <1>1, <1>2, <1>3

\* The fields of a mount.
LEMMA MountsAre ==
  ASSUME NEW s, NEW d
  PROVE  /\ Bind(s, d).destination = d /\ Bind(s, d).source = s /\ ~Bind(s, d).readOnly
         /\ ReadOnlyBind(s, d).destination = d /\ ReadOnlyBind(s, d).source = s
         /\ Volume(s, d).destination = d /\ Volume(s, d).source = s
  BY DEF Bind, ReadOnlyBind, Volume

\* The places of the mounts of Nix.
StaticNix == <<"/etc/static/nix">>

NixDests(static) ==
    {<<"/nix">>, <<"/usr/local/bin/nix">>, <<"/etc/nix">>}
        \cup (IF static THEN {StaticNix} ELSE {})

\* Where a git root and CODEX_HOME can be.
RootPaths == {<<"/root">>, VolumeDestination, <<"/home/user/.codex">>, <<"/nix">>, <<"/etc/nix">>}

\* What the host's paths are.
LEMMA PathsAre ==
  ASSUME NEW h, NEW v
  PROVE  GitRoot(h) \in RootPaths /\ PathOf(h, v) \in RootPaths \cup {<<v>>}
  <1>1. \A n : Place(n) \in RootPaths
    BY DEF Place, RootPaths
  <1>2. GitRoot(h) \in RootPaths
    BY <1>1 DEF GitRoot, RootPaths
  <1>3. QED
    BY <1>1, <1>2 DEF PathOf

\* The mounts at a place that the user chose.
UserMounts(h) ==
    {Bind(GitRoot(h), GitRoot(h))}
        \cup (IF h.env["CODEX_HOME"] = "unset" THEN {}
              ELSE {Bind(PathOf(h, "CODEX_HOME"), PathOf(h, "CODEX_HOME"))})

\* The git root and the cache volume.
LEMMA WorkspaceMounts ==
  ASSUME NEW h
  PROVE  LET base == <<Bind(GitRoot(h), GitRoot(h)), Volume(<<"cache">>, VolumeDestination)>>
         IN  /\ IsList(base) /\ Dests(base) = {GitRoot(h), VolumeDestination}
             /\ Apart(base, UserMounts(h)) /\ NotTemporary(base)
             /\ \A m \in ToSet(base) : m \in UserMounts(h) \/ m.destination = VolumeDestination
  <1> DEFINE m == Bind(GitRoot(h), GitRoot(h))
             n == Volume(<<"cache">>, VolumeDestination)
  <1>1. /\ m.destination = GitRoot(h) /\ n.destination = VolumeDestination
        /\ m.source = GitRoot(h) /\ n.source = <<"cache">>
    BY MountsAre
  <1>2. GitRoot(h) # TemporaryFile /\ <<"cache">> # TemporaryFile
    BY PathsAre DEF RootPaths, VolumeDestination, TemporaryFile
  <1>3. m \in UserMounts(h)
    BY DEF UserMounts
  <1> HIDE DEF m, n
  <1>4. /\ IsList(<<m, n>>) /\ ToSet(<<m, n>>) = {m, n}
        /\ Dests(<<m, n>>) = {m.destination, n.destination}
    BY ShortLists
  <1>5. NotTemporary(<<m, n>>)
    BY <1>1, <1>2, <1>4 DEF NotTemporary
  <1>6. Apart(<<m, n>>, UserMounts(h))
    BY <1>3 DEF Apart
  <1>7. QED
    BY <1>1, <1>3, <1>4, <1>5, <1>6 DEF m, n

\* host_nix_mounts
LEMMA NixMounts ==
  ASSUME NEW static \in BOOLEAN
  PROVE  LET nix == HostNixMounts(static)
         IN  /\ IsList(nix) /\ Dests(nix) = NixDests(static) /\ Distinct(nix) /\ NotTemporary(nix)
  <1> DEFINE a == ReadOnlyBind(<<"/nix">>, <<"/nix">>)
             b == ReadOnlyBind(<<"nixClient">>, <<"/usr/local/bin/nix">>)
             c == ReadOnlyBind(<<"/etc/nix">>, <<"/etc/nix">>)
             d == ReadOnlyBind(StaticNix, StaticNix)
  <1>1. /\ a.destination = <<"/nix">> /\ a.source = <<"/nix">>
        /\ b.destination = <<"/usr/local/bin/nix">> /\ b.source = <<"nixClient">>
        /\ c.destination = <<"/etc/nix">> /\ c.source = <<"/etc/nix">>
        /\ d.destination = StaticNix /\ d.source = StaticNix
    BY MountsAre
  <1>2. /\ a.source # TemporaryFile /\ b.source # TemporaryFile
        /\ c.source # TemporaryFile /\ d.source # TemporaryFile
    BY <1>1 DEF TemporaryFile, StaticNix
  <1>3. /\ a.destination # b.destination /\ a.destination # c.destination
        /\ a.destination # d.destination /\ b.destination # c.destination
        /\ b.destination # d.destination /\ c.destination # d.destination
    BY <1>1 DEF StaticNix
  <1> HIDE DEF a, b, c, d
  <1> DEFINE t == <<a, b, c>>
             e == IF static THEN <<d>> ELSE <<>>
  <1>4. /\ IsList(t) /\ Distinct(t) /\ ToSet(t) = {a, b, c}
        /\ Dests(t) = {a.destination, b.destination, c.destination}
    <2>1. t \in Seq({a, b, c})
      OBVIOUS
    <2>2. ToSet(t) = {a, b, c}
      BY DEF ToSet
    <2>3. QED
      BY <1>3, <2>1, <2>2 DEF IsList, Dests, Distinct
  <1>5. /\ IsList(e) /\ Distinct(e) /\ ToSet(e) = (IF static THEN {d} ELSE {})
        /\ Dests(e) = (IF static THEN {d.destination} ELSE {})
    BY ShortLists
  <1>6. HostNixMounts(static) = t \o e
    BY DEF HostNixMounts, a, b, c, d, StaticNix
  <1> HIDE DEF t, e
  <1>7. Dests(t) \cap Dests(e) = {}
    BY <1>3, <1>4, <1>5
  <1>8. /\ IsList(t \o e) /\ Distinct(t \o e) /\ Dests(t \o e) = Dests(t) \cup Dests(e)
        /\ ToSet(t \o e) = ToSet(t) \cup ToSet(e)
    BY <1>4, <1>5, <1>7, ListsJoin
  <1>9. Dests(t \o e) = NixDests(static)
    BY <1>1, <1>4, <1>5, <1>8 DEF NixDests
  <1>10. NotTemporary(t \o e)
    BY <1>2, <1>4, <1>5, <1>8 DEF NotTemporary
  <1>11. QED
    BY <1>6, <1>8, <1>9, <1>10

\* The Wayland socket is mounted exactly when the variable is set.
LEMMA WaylandIs ==
  ASSUME NEW h
  PROVE  LET w == Wayland(h)
         IN  /\ IsList(w.mounts) /\ Distinct(w.mounts) /\ NotTemporary(w.mounts)
             /\ Dests(w.mounts) \subseteq {WaylandSocket}
             /\ DOMAIN w.env \subseteq {"WAYLAND_DISPLAY"}
             /\ WaylandSocket \in Dests(w.mounts) <=> "WAYLAND_DISPLAY" \in DOMAIN w.env
             /\ "WAYLAND_DISPLAY" \in DOMAIN w.env => w.env["WAYLAND_DISPLAY"] = WaylandSocket
  <1> DEFINE w == Wayland(h)
             m == Bind(WaylandHostSocket(h), WaylandSocket)
  <1>1. CASE w = NoPassthrough
    <2>1. w.mounts = <<>> /\ w.env = << >>
      BY <1>1 DEF NoPassthrough
    <2>2. DOMAIN w.env = {}
      BY <2>1
    <2> HIDE DEF w
    <2>3. QED
      BY <2>1, <2>2, ShortLists DEF NotTemporary, w
  <1>2. CASE w # NoPassthrough
    <2>1. /\ WaylandHostSocket(h) # None
          /\ w.mounts = <<m>> /\ w.env = [WAYLAND_DISPLAY |-> WaylandSocket]
      BY <1>2 DEF Wayland
    <2>2. WaylandHostSocket(h) # TemporaryFile
      BY DEF WaylandHostSocket, TemporaryFile, None
    <2>3. m.destination = WaylandSocket /\ m.source # TemporaryFile
      BY <2>2, MountsAre
    <2>4. DOMAIN w.env = {"WAYLAND_DISPLAY"} /\ w.env["WAYLAND_DISPLAY"] = WaylandSocket
      BY <2>1
    <2> HIDE DEF w, m
    <2>5. QED
      BY <2>1, <2>3, <2>4, ShortLists DEF NotTemporary, w
  <1>3. QED
    BY <1>1, <1>2

\* The known hosts.
LEMMA KnownHostsIs ==
  ASSUME NEW h, NEW lines
  PROVE  LET k == KnownHosts(h, lines)
         IN  /\ IsList(k.mounts) /\ Distinct(k.mounts)
             /\ Dests(k.mounts) \subseteq {KnownHostsFile}
             /\ DOMAIN k.env \subseteq {"GIT_SSH_COMMAND"}
             /\ KnownHostsFile \in Dests(k.mounts) <=> "GIT_SSH_COMMAND" \in DOMAIN k.env
             /\ k.mounts = <<>> => NotTemporary(k.mounts)
             /\ h.tempFiles => \A l \in HostLines(h) :
                   "GIT_SSH_COMMAND" \in DOMAIN k.env /\ l \in k.env["GIT_SSH_COMMAND"][2]
  <1> DEFINE k == KnownHosts(h, lines)
             m == ReadOnlyBind(TemporaryFile, KnownHostsFile)
             all == HostLines(h) \cup {<<l>> : l \in lines}
  <1>1. CASE all = {} \/ ~h.tempFiles
    <2>1. k = NoPassthrough
      BY <1>1 DEF KnownHosts
    <2>2. k.mounts = <<>> /\ k.env = << >>
      BY <2>1 DEF NoPassthrough
    <2>3. DOMAIN k.env = {}
      BY <2>2
    <2>4. h.tempFiles => HostLines(h) = {}
      BY <1>1
    <2> HIDE DEF k
    <2>5. QED
      BY <2>2, <2>3, <2>4, ShortLists DEF NotTemporary, k
  <1>2. CASE all # {} /\ h.tempFiles
    <2>1. k.mounts = <<m>> /\ k.env = [GIT_SSH_COMMAND |-> <<KnownHostsFile, all>>]
      BY <1>2 DEF KnownHosts, TemporaryFile
    <2>2. m.destination = KnownHostsFile
      BY MountsAre
    <2>3. DOMAIN k.env = {"GIT_SSH_COMMAND"} /\ k.env["GIT_SSH_COMMAND"][2] = all
      BY <2>1
    <2>4. k.mounts # <<>>
      BY <2>1
    <2> HIDE DEF k, m
    <2>5. QED
      BY <2>1, <2>2, <2>3, <2>4, ShortLists DEF k
  <1>3. QED
    BY <1>1, <1>2

-----------------------------------------------------------------------------
(* The directories of the runtimes. *)

CodexDirectory == <<"/home/user/.codex">>

FixedStateDests ==
    {CodexDirectory, <<"/home/user/.config/opencode">>, <<"/home/user/.local/share/opencode">>}

StateDests == FixedStateDests \cup {<<"CODEX_HOME">>} \cup RootPaths

\* What the preflight lets through is a directory of StatePaths.
LEMMA ValidMountIs ==
  ASSUME NEW h, NEW r, ValidMount(h, r)
  PROVE  LET res == ResolveSource(h, r)
             m == StateMount(h, r)
         IN  /\ ~res.error /\ Destination(h, r, res) # None
             /\ m.destination = Destination(h, r, res)
             /\ m = Bind(res.path, m.destination)
             /\ m.source # TemporaryFile /\ ~m.readOnly
  <1> DEFINE res == ResolveSource(h, r)
             m == StateMount(h, r)
  <1>1. /\ ~res.error /\ Destination(h, r, res) # None
        /\ DirStatus(h, res.path).exists
    BY DEF ValidMount, RuntimeState
  <1>2. res.path \in StatePaths
    BY <1>1 DEF DirStatus
  <1>3. res.path # TemporaryFile
    BY <1>2 DEF StatePaths, TemporaryFile, Place, VolumeDestination
  <1>4. /\ m = Bind(res.path, Destination(h, r, res))
        /\ m.destination = Destination(h, r, res) /\ m.source = res.path /\ ~m.readOnly
    BY MountsAre DEF StateMount
  <1>5. QED
    BY <1>1, <1>3, <1>4

\* codex has one directory: the one CODEX_HOME names, at the same path, or
\* its own in the container's home.
LEMMA CodexStateIs ==
  ASSUME NEW h, NEW mode, Passes(h, "codex", mode)
  PROVE  LET specs == HostStateMounts("codex", mode)
             ms == RuntimeMounts(h, specs)
             e == RuntimeEnvironment(h, specs)
         IN  \E m : /\ ms = <<m>> /\ m.source # TemporaryFile /\ ~m.readOnly
                    /\ \/ DOMAIN e = {} /\ m.destination = CodexDirectory
                       \/ /\ DOMAIN e = {"CODEX_HOME"} /\ e["CODEX_HOME"] = m.destination
                          /\ m \in UserMounts(h) /\ m.destination \in RootPaths \cup {<<"CODEX_HOME">>}
  <1> DEFINE specs == HostStateMounts("codex", mode)
             ms == RuntimeMounts(h, specs)
             e == RuntimeEnvironment(h, specs)
  <1> DEFINE r == CodexHostState(mode)[1]
  <1>1. /\ specs = <<r>> /\ r.variable = "CODEX_HOME"
        /\ r.source \in {"home", "environmentOrHome"}
        /\ r.destination = CodexDirectory
    BY DEF HostStateMounts, CodexHostState, CodexDirectory
  <1> HIDE DEF r
  <1> DEFINE res == ResolveSource(h, r)
             m == StateMount(h, r)
             one == StateEnvironment(r, res)
  <1>2. ValidMount(h, r)
    BY <1>1 DEF Passes
  <1>3. /\ ~res.error /\ Destination(h, r, res) # None
        /\ m.destination = Destination(h, r, res)
        /\ m = Bind(res.path, m.destination)
        /\ m.source # TemporaryFile /\ ~m.readOnly
    BY <1>2, ValidMountIs
  <1>4. ms = <<m>>
    BY <1>1 DEF RuntimeMounts
  <1>5. e = [v \in DOMAIN one |-> one[v]]
    <2>1. {StateEnvironment(specs[i], ResolveSource(h, specs[i])) : i \in DOMAIN specs} = {one}
      BY <1>1
    <2> HIDE DEF one
    <2>2. e = [v \in UNION {DOMAIN f : f \in {one}} |-> (CHOOSE f \in {one} : v \in DOMAIN f)[v]]
      BY <2>1 DEF RuntimeEnvironment
    <2>3. UNION {DOMAIN f : f \in {one}} = DOMAIN one
      OBVIOUS
    <2>4. \A v \in DOMAIN one : (CHOOSE f \in {one} : v \in DOMAIN f) = one
      OBVIOUS
    <2>5. QED
      BY <2>2, <2>3, <2>4
  <1>6. CASE res.fromEnvironment = FALSE
    <2>1. m.destination = CodexDirectory
      BY <1>1, <1>3, <1>6 DEF Destination
    <2>2. one = << >>
      BY <1>6 DEF StateEnvironment
    <2>3. DOMAIN e = {}
      BY <1>5, <2>2
    <2>4. QED
      BY <1>3, <1>4, <2>1, <2>3
  <1>7. CASE /\ res.fromEnvironment = TRUE /\ res.path = PathOf(h, "CODEX_HOME")
             /\ h.env["CODEX_HOME"] # "unset"
    <2>1. m.destination = res.path
      BY <1>1, <1>3, <1>7 DEF Destination
    <2>2. one = [v \in {"CODEX_HOME"} |-> res.path]
      BY <1>1, <1>7 DEF StateEnvironment
    <2>3. DOMAIN e = {"CODEX_HOME"} /\ e["CODEX_HOME"] = m.destination
      BY <1>5, <2>1, <2>2
    <2>4. m \in UserMounts(h) /\ m.destination \in RootPaths \cup {<<"CODEX_HOME">>}
      <3>1. m = Bind(PathOf(h, "CODEX_HOME"), PathOf(h, "CODEX_HOME"))
        BY <1>3, <1>7, <2>1
      <3>2. QED
        BY <1>7, <2>1, <3>1, PathsAre DEF UserMounts
    <2>5. QED
      BY <1>3, <1>4, <2>3, <2>4
  <1>8. \/ res.fromEnvironment = FALSE
        \/ /\ res.fromEnvironment = TRUE /\ res.path = PathOf(h, "CODEX_HOME")
           /\ h.env["CODEX_HOME"] # "unset"
    BY <1>1 DEF ResolveSource
  <1>9. QED
    BY <1>6, <1>7, <1>8

\* opencode has two, at fixed places and without a variable.
LEMMA OpencodeStateIs ==
  ASSUME NEW h, NEW mode, Passes(h, "opencode", mode)
  PROVE  LET specs == HostStateMounts("opencode", mode)
             ms == RuntimeMounts(h, specs)
         IN  /\ DOMAIN RuntimeEnvironment(h, specs) = {}
             /\ \E m, n : /\ ms = <<m, n>>
                          /\ m.source # TemporaryFile /\ n.source # TemporaryFile
                          /\ m.destination = <<"/home/user/.config/opencode">>
                          /\ n.destination = <<"/home/user/.local/share/opencode">>
  <1> DEFINE specs == HostStateMounts("opencode", mode)
             ms == RuntimeMounts(h, specs)
             e == RuntimeEnvironment(h, specs)
  <1> DEFINE r == OpencodeHostState[1]
             q == OpencodeHostState[2]
  <1>1. /\ specs = <<r, q>>
        /\ r.source = "xdgOrHome" /\ q.source = "xdgOrHome"
        /\ r.destination = <<"/home/user/.config/opencode">>
        /\ q.destination = <<"/home/user/.local/share/opencode">>
    BY DEF HostStateMounts, OpencodeHostState
  <1> HIDE DEF r, q
  <1>2. specs[1] = r /\ specs[2] = q /\ DOMAIN specs = {1, 2}
    BY <1>1
  <1> DEFINE m == StateMount(h, r)
             n == StateMount(h, q)
  <1>3. ValidMount(h, r) /\ ValidMount(h, q)
    BY <1>2 DEF Passes
  <1>4. ASSUME NEW x, x.source = "xdgOrHome" PROVE ResolveSource(h, x).fromEnvironment = FALSE
    BY <1>4 DEF ResolveSource
  <1>5. /\ m.source # TemporaryFile /\ n.source # TemporaryFile
        /\ m.destination = r.destination /\ n.destination = q.destination
    BY <1>1, <1>3, <1>4, ValidMountIs DEF Destination
  <1>6. ms = <<m, n>>
    BY <1>1, <1>2 DEF RuntimeMounts
  <1>7. DOMAIN e = {}
    <2>1. /\ StateEnvironment(r, ResolveSource(h, r)) = << >>
          /\ StateEnvironment(q, ResolveSource(h, q)) = << >>
      BY <1>1, <1>4 DEF StateEnvironment
    <2> DEFINE one == << >>
    <2>2. DOMAIN one = {}
      OBVIOUS
    <2> HIDE DEF one
    <2>3. {StateEnvironment(specs[i], ResolveSource(h, specs[i])) : i \in DOMAIN specs} = {one}
      BY <1>2, <2>1 DEF one
    <2>4. e = [v \in UNION {DOMAIN f : f \in {one}} |-> (CHOOSE f \in {one} : v \in DOMAIN f)[v]]
      BY <2>3 DEF RuntimeEnvironment
    <2>5. UNION {DOMAIN f : f \in {one}} = {}
      BY <2>2
    <2>6. QED
      BY <2>4, <2>5
  <1>8. QED
    BY <1>1, <1>5, <1>6, <1>7

\* The directories of a runtime, of either kind.
LEMMA StateMounts ==
  ASSUME NEW h, NEW runtime \in RuntimeKinds, NEW mode, Passes(h, runtime, mode)
  PROVE  LET specs == HostStateMounts(runtime, mode)
             ms == RuntimeMounts(h, specs)
             e == RuntimeEnvironment(h, specs)
         IN  /\ IsList(ms) /\ Distinct(ms) /\ NotTemporary(ms)
             /\ Dests(ms) \subseteq StateDests
             /\ \A m \in ToSet(ms) : m \in UserMounts(h) \/ m.destination \in FixedStateDests
             /\ DOMAIN e \subseteq {"CODEX_HOME"}
             /\ "CODEX_HOME" \in DOMAIN e => e["CODEX_HOME"] \in Dests(ms)
             /\ runtime = "codex" =>
                   \E m \in ToSet(ms) :
                      /\ ~m.readOnly
                      /\ m.destination = IF "CODEX_HOME" \in DOMAIN e THEN e["CODEX_HOME"]
                                                                      ELSE CodexDirectory
  <1> DEFINE specs == HostStateMounts(runtime, mode)
             ms == RuntimeMounts(h, specs)
             e == RuntimeEnvironment(h, specs)
  <1>1. CASE runtime = "codex"
    <2>1. PICK m : /\ ms = <<m>> /\ m.source # TemporaryFile /\ ~m.readOnly
                   /\ \/ DOMAIN e = {} /\ m.destination = CodexDirectory
                      \/ /\ DOMAIN e = {"CODEX_HOME"} /\ e["CODEX_HOME"] = m.destination
                         /\ m \in UserMounts(h) /\ m.destination \in RootPaths \cup {<<"CODEX_HOME">>}
      BY <1>1, CodexStateIs
    <2> HIDE DEF ms, e
    <2>2. /\ IsList(ms) /\ ToSet(ms) = {m} /\ Dests(ms) = {m.destination} /\ Distinct(ms)
      BY <2>1, ShortLists
    <2>3. NotTemporary(ms)
      BY <2>1, <2>2 DEF NotTemporary
    <2>4. m.destination \in StateDests
      BY <2>1 DEF StateDests, FixedStateDests
    <2>5. m \in UserMounts(h) \/ m.destination \in FixedStateDests
      BY <2>1 DEF FixedStateDests
    <2>6. QED
      BY <2>1, <2>2, <2>3, <2>4, <2>5 DEF ms, e
  <1>2. CASE runtime = "opencode"
    <2>1. PICK m, n : /\ ms = <<m, n>>
                      /\ m.source # TemporaryFile /\ n.source # TemporaryFile
                      /\ m.destination = <<"/home/user/.config/opencode">>
                      /\ n.destination = <<"/home/user/.local/share/opencode">>
      BY <1>2, OpencodeStateIs
    <2>2. DOMAIN e = {}
      BY <1>2, OpencodeStateIs
    <2> HIDE DEF ms, e
    <2>3. m.destination # n.destination
      BY <2>1
    <2>4. /\ IsList(ms) /\ ToSet(ms) = {m, n} /\ Dests(ms) = {m.destination, n.destination}
          /\ Distinct(ms)
      BY <2>1, <2>3, ShortLists
    <2>5. NotTemporary(ms)
      BY <2>1, <2>4 DEF NotTemporary
    <2>6. Dests(ms) \subseteq StateDests
      BY <2>1, <2>4 DEF StateDests, FixedStateDests
    <2>7. \A o \in ToSet(ms) : o.destination \in FixedStateDests
      BY <2>1, <2>4 DEF FixedStateDests
    <2>8. QED
      BY <1>2, <2>2, <2>4, <2>5, <2>6, <2>7 DEF ms, e
  <1>3. QED
    BY <1>1, <1>2 DEF RuntimeKinds

-----------------------------------------------------------------------------
(* Git and the agent. *)

ExcludesEntry == <<"core.excludesFile", ExcludesFile>>

SigningKeys == {"gpg.format", "user.signingkey", "commit.gpgsign"}

\* The excludes file is mounted exactly when it is configured.
LEMMA ExcludesAre ==
  ASSUME NEW h
  PROVE  LET x == Excludes(h)
         IN  /\ IsList(x.mounts) /\ Distinct(x.mounts) /\ NotTemporary(x.mounts)
             /\ Dests(x.mounts) \subseteq {ExcludesFile}
             /\ x.entries \subseteq {ExcludesEntry}
             /\ ExcludesEntry \in x.entries <=> ExcludesFile \in Dests(x.mounts)
  <1> DEFINE x == Excludes(h)
             m == ReadOnlyBind(ExcludesSource(h), ExcludesFile)
  <1>1. CASE ~ExcludesReadable(h)
    <2>1. x.mounts = <<>> /\ x.entries = {}
      BY <1>1 DEF Excludes
    <2> HIDE DEF x
    <2>2. QED
      BY <2>1, ShortLists DEF NotTemporary, x
  <1>2. CASE ExcludesReadable(h)
    <2>1. x.mounts = <<m>> /\ x.entries = {ExcludesEntry}
      BY <1>2 DEF Excludes, ExcludesEntry
    <2>2. ExcludesSource(h) # TemporaryFile
      <3>1. PICK p : GitRoot(h) = <<p>>
        BY PathsAre DEF RootPaths, VolumeDestination
      <3>2. Len(<<p>> \o <<"core.excludesFile">>) = 2 /\ Len(TemporaryFile) = 1
        BY DEF TemporaryFile
      <3>3. GitRoot(h) \o <<"core.excludesFile">> # TemporaryFile
        BY <3>1, <3>2
      <3>4. QED
        BY <3>3 DEF ExcludesSource, TemporaryFile, None
    <2>3. m.destination = ExcludesFile /\ m.source # TemporaryFile
      BY <2>2, MountsAre
    <2> HIDE DEF x, m
    <2>4. QED
      BY <2>1, <2>3, ShortLists DEF NotTemporary, x
  <1>3. QED
    BY <1>1, <1>2

\* The identity says nothing of excludes and signing.
LEMMA IdentityIs ==
  ASSUME NEW h, NEW identity
  PROVE  \A e \in IdentityEntries(h, identity) : e[1] \notin SigningKeys /\ e # ExcludesEntry
  BY DEF IdentityEntries, ReadKeys, SigningKeys, ExcludesEntry

\* What is said of signing comes with the format ssh, and a key is public.
LEMMA SigningIs ==
  ASSUME NEW h
  PROVE  \A e \in SigningEntries(h) :
            /\ e[1] \in SigningKeys /\ e # ExcludesEntry
            /\ <<"gpg.format", "ssh">> \in SigningEntries(h)
            /\ e[1] = "user.signingkey" => e[2] = "public"
  <1>1. SUFFICES ASSUME h.git["gpg.format"] = "ssh"
                 PROVE  \A e \in SigningEntries(h) :
                           /\ e[1] \in SigningKeys /\ e # ExcludesEntry
                           /\ <<"gpg.format", "ssh">> \in SigningEntries(h)
                           /\ e[1] = "user.signingkey" => e[2] = "public"
    BY DEF SigningEntries
  <1>2. <<"gpg.format", "ssh">> \in ReadKeys(h, {"gpg.format", "commit.gpgsign"})
    BY <1>1 DEF ReadKeys
  <1>3. SigningEntries(h) = ReadKeys(h, {"gpg.format", "commit.gpgsign"})
           \cup (IF SigningKey(h) = "public" THEN {<<"user.signingkey", "public">>} ELSE {})
    BY <1>1 DEF SigningEntries
  <1>4. \A e \in ReadKeys(h, {"gpg.format", "commit.gpgsign"}) :
           e[1] \in {"gpg.format", "commit.gpgsign"} /\ e # ExcludesEntry
    BY DEF ReadKeys, ExcludesEntry
  <1>5. <<"user.signingkey", "public">> # ExcludesEntry
    BY DEF ExcludesEntry
  <1>6. QED
    BY <1>2, <1>3, <1>4, <1>5 DEF SigningKeys

\* The later variables over the earlier ones.
LEMMA OverIs ==
  ASSUME NEW later, NEW earlier
  PROVE  LET e == Over(later, earlier)
         IN  /\ DOMAIN e = DOMAIN later \cup DOMAIN earlier
             /\ \A v \in DOMAIN later : e[v] = later[v]
             /\ \A v \in DOMAIN earlier \ DOMAIN later : e[v] = earlier[v]
  BY DEF Over

EntriesOf(e) == IF "GIT_CONFIG" \in DOMAIN e THEN e["GIT_CONFIG"] ELSE {}

GitVariables == {"IDENTITY", "GIT_CONFIG", "SSH_AUTH_SOCK"}

\* The variables of the Git configuration hold its entries.
LEMMA GitConfigIs ==
  ASSUME NEW S, NEW identity
  PROVE  LET e == Over([IDENTITY |-> identity], GitConfigEnv(S))
             agent == Over([SSH_AUTH_SOCK |-> AgentSocket], e)
         IN  /\ DOMAIN e \subseteq {"IDENTITY", "GIT_CONFIG"} /\ EntriesOf(e) = S
             /\ DOMAIN agent \subseteq GitVariables /\ EntriesOf(agent) = S
             /\ "SSH_AUTH_SOCK" \in DOMAIN agent /\ agent["SSH_AUTH_SOCK"] = AgentSocket
  <1> DEFINE named == [IDENTITY |-> identity]
             config == GitConfigEnv(S)
             e == Over(named, config)
             socket == [SSH_AUTH_SOCK |-> AgentSocket]
             agent == Over(socket, e)
  <1>1. /\ DOMAIN named = {"IDENTITY"}
        /\ DOMAIN socket = {"SSH_AUTH_SOCK"} /\ socket["SSH_AUTH_SOCK"] = AgentSocket
    OBVIOUS
  <1>2. DOMAIN config \subseteq {"GIT_CONFIG"} /\ EntriesOf(config) = S
    <2>1. CASE S = {}
      <3>1. config = << >>
        BY <2>1 DEF GitConfigEnv
      <3>2. DOMAIN config = {}
        BY <3>1
      <3>3. QED
        BY <2>1, <3>2 DEF EntriesOf
    <2>2. CASE S # {}
      <3>1. config = [GIT_CONFIG |-> S]
        BY <2>2 DEF GitConfigEnv
      <3>2. DOMAIN config = {"GIT_CONFIG"} /\ config["GIT_CONFIG"] = S
        BY <3>1
      <3>3. QED
        BY <3>2 DEF EntriesOf
    <2>3. QED
      BY <2>1, <2>2
  <1> HIDE DEF named, socket, config
  <1>3. /\ DOMAIN e = DOMAIN named \cup DOMAIN config
        /\ \A v \in DOMAIN config \ DOMAIN named : e[v] = config[v]
    BY OverIs
  <1>4. DOMAIN e \subseteq {"IDENTITY", "GIT_CONFIG"} /\ EntriesOf(e) = S
    BY <1>1, <1>2, <1>3 DEF EntriesOf
  <1> HIDE DEF e
  <1>5. /\ DOMAIN agent = DOMAIN socket \cup DOMAIN e
        /\ \A v \in DOMAIN socket : agent[v] = socket[v]
        /\ \A v \in DOMAIN e \ DOMAIN socket : agent[v] = e[v]
    BY OverIs
  <1>6. /\ DOMAIN agent \subseteq GitVariables /\ EntriesOf(agent) = S
        /\ "SSH_AUTH_SOCK" \in DOMAIN agent /\ agent["SSH_AUTH_SOCK"] = AgentSocket
    BY <1>1, <1>4, <1>5 DEF EntriesOf, GitVariables
  <1>7. QED
    BY <1>4, <1>6 DEF e, named, config, agent, socket

\* The variables and mounts of Git and the agent go together.
GitView(h, ms, e) ==
    /\ AgentSocket \in Dests(ms) <=> AgentAvailable(h)
    /\ "SSH_AUTH_SOCK" \in DOMAIN e <=> AgentAvailable(h)
    /\ "SSH_AUTH_SOCK" \in DOMAIN e => e["SSH_AUTH_SOCK"] = AgentSocket
    /\ ExcludesEntry \in EntriesOf(e) <=> ExcludesFile \in Dests(ms)
    /\ \A x \in EntriesOf(e) : x[1] \in SigningKeys =>
          /\ AgentAvailable(h)
          /\ <<"gpg.format", "ssh">> \in EntriesOf(e)
          /\ x[1] = "user.signingkey" => x[2] = "public"

\* commit_signing::detect_with
LEMMA CommitSigningIs ==
  ASSUME NEW h, NEW identity
  PROVE  LET c == CommitSigning(h, identity)
         IN  /\ IsList(c.mounts) /\ Distinct(c.mounts) /\ NotTemporary(c.mounts)
             /\ Dests(c.mounts) \subseteq {ExcludesFile, AgentSocket}
             /\ DOMAIN c.env \subseteq GitVariables
             /\ GitView(h, c.mounts, c.env)
  <1> DEFINE c == CommitSigning(h, identity)
             x == Excludes(h)
             id == IdentityEntries(h, identity)
             plain == id \cup x.entries
             all == plain \cup SigningEntries(h)
             names == IdentityEnv(id)
             m == Bind(PathOf(h, "SSH_AUTH_SOCK"), AgentSocket)
  <1>1. /\ IsList(x.mounts) /\ Distinct(x.mounts) /\ NotTemporary(x.mounts)
        /\ Dests(x.mounts) \subseteq {ExcludesFile}
        /\ x.entries \subseteq {ExcludesEntry}
        /\ ExcludesEntry \in x.entries <=> ExcludesFile \in Dests(x.mounts)
    BY ExcludesAre
  <1>2. \A e \in id : e[1] \notin SigningKeys /\ e # ExcludesEntry
    BY IdentityIs
  <1>3. \A e \in SigningEntries(h) :
            /\ e[1] \in SigningKeys /\ e # ExcludesEntry
            /\ <<"gpg.format", "ssh">> \in SigningEntries(h)
            /\ e[1] = "user.signingkey" => e[2] = "public"
    BY SigningIs
  <1>4. ExcludesEntry[1] \notin SigningKeys /\ ExcludesFile # AgentSocket
    BY DEF ExcludesEntry, SigningKeys, ExcludesFile, AgentSocket
  <1>5. m.destination = AgentSocket /\ m.source # TemporaryFile
    BY MountsAre, PathsAre DEF RootPaths, VolumeDestination, TemporaryFile
  <1>6. CASE ~AgentAvailable(h)
    <2>1. c.mounts = x.mounts /\ c.env = Over([IDENTITY |-> names], GitConfigEnv(plain))
      BY <1>6 DEF CommitSigning
    <2>2. DOMAIN c.env \subseteq {"IDENTITY", "GIT_CONFIG"} /\ EntriesOf(c.env) = plain
      BY <2>1, GitConfigIs
    <2> HIDE DEF c, x, id
    <2>3. GitView(h, c.mounts, c.env)
      <3>1. AgentSocket \notin Dests(c.mounts) /\ "SSH_AUTH_SOCK" \notin DOMAIN c.env
        BY <1>1, <1>4, <2>1, <2>2
      <3>2. ExcludesEntry \in EntriesOf(c.env) <=> ExcludesFile \in Dests(c.mounts)
        BY <1>1, <1>2, <2>1, <2>2
      <3>3. \A y \in EntriesOf(c.env) : y[1] \notin SigningKeys
        BY <1>1, <1>2, <1>4, <2>2
      <3>4. QED
        BY <1>6, <3>1, <3>2, <3>3 DEF GitView
    <2>4. QED
      BY <1>1, <2>1, <2>2, <2>3 DEF GitVariables, c
  <1>7. CASE AgentAvailable(h)
    <2>1. /\ c.mounts = Append(x.mounts, m)
          /\ c.env = Over([SSH_AUTH_SOCK |-> AgentSocket],
                          Over([IDENTITY |-> names], GitConfigEnv(all)))
      BY <1>7 DEF CommitSigning
    <2>2. /\ DOMAIN c.env \subseteq GitVariables /\ EntriesOf(c.env) = all
          /\ "SSH_AUTH_SOCK" \in DOMAIN c.env /\ c.env["SSH_AUTH_SOCK"] = AgentSocket
      BY <2>1, GitConfigIs
    <2> HIDE DEF c, x, id, m
    <2>3. c.mounts = x.mounts \o <<m>>
      <3>1. PICK S : x.mounts \in Seq(S)
        BY <1>1 DEF IsList
      <3>2. x.mounts \in Seq(S \cup {m}) /\ m \in S \cup {m}
        BY <3>1, SeqMonotonic
      <3>3. QED
        BY <2>1, <3>2, AppendIsConcat
    <2>4. /\ IsList(<<m>>) /\ ToSet(<<m>>) = {m} /\ Dests(<<m>>) = {AgentSocket} /\ Distinct(<<m>>)
      BY <1>5, ShortLists
    <2>5. Dests(x.mounts) \cap Dests(<<m>>) = {}
      BY <1>1, <1>4, <2>4
    <2>6. /\ IsList(c.mounts) /\ Distinct(c.mounts)
          /\ ToSet(c.mounts) = ToSet(x.mounts) \cup {m}
          /\ Dests(c.mounts) = Dests(x.mounts) \cup {AgentSocket}
      BY <1>1, <2>3, <2>4, <2>5, ListsJoin
    <2>7. NotTemporary(c.mounts)
      BY <1>1, <1>5, <2>6 DEF NotTemporary
    <2>8. GitView(h, c.mounts, c.env)
      <3>1. AgentSocket \in Dests(c.mounts)
        BY <2>6
      <3>2. ExcludesEntry \in EntriesOf(c.env) <=> ExcludesFile \in Dests(c.mounts)
        BY <1>1, <1>2, <1>3, <1>4, <2>2, <2>6
      <3>3. \A y \in EntriesOf(c.env) : y[1] \in SigningKeys => y \in SigningEntries(h)
        BY <1>1, <1>2, <1>4, <2>2
      <3>4. SigningEntries(h) \subseteq EntriesOf(c.env)
        BY <2>2
      <3>5. QED
        BY <1>3, <1>7, <2>2, <3>1, <3>2, <3>3, <3>4 DEF GitView
    <2>9. QED
      BY <1>1, <2>2, <2>6, <2>7, <2>8 DEF c
  <1>8. QED
    BY <1>6, <1>7

-----------------------------------------------------------------------------
(* The specification, as the steps extend it. *)

BuiltMounts(h, c) ==
    MountsForWorkspace(GitRoot(h), HostNixMounts(ReachesStatic(h)),
                       RuntimeMounts(h, HostStateMounts(c.runtime, Mode(c))))
      \o Wayland(h).mounts

BuiltEnv(h, c) ==
    Over(Wayland(h).env,
         Over(RuntimeEnvironment(h, HostStateMounts(c.runtime, Mode(c))),
              DefaultEnvironment(c.runtime)))

PassedMounts(h, c) == BuiltMounts(h, c) \o CommitSigning(h, GitIdentity(c)).mounts

PassedEnv(h, c) == Over(CommitSigning(h, GitIdentity(c)).env, BuiltEnv(h, c))

\* What holds of the mounts and the variables from the first on.
HostView(h, c, ms, e) ==
    /\ IsList(ms)
    /\ Apart(ms, UserMounts(h))
    /\ WaylandSocket \in Dests(ms) <=> "WAYLAND_DISPLAY" \in DOMAIN e
    /\ "WAYLAND_DISPLAY" \in DOMAIN e => e["WAYLAND_DISPLAY"] = WaylandSocket
    /\ "CODEX_HOME" \in DOMAIN e => e["CODEX_HOME"] \in Dests(ms)
    /\ c.runtime = "codex" =>
          \E m \in ToSet(ms) :
             /\ ~m.readOnly
             /\ m.destination = IF "CODEX_HOME" \in DOMAIN e THEN e["CODEX_HOME"]
                                                             ELSE CodexDirectory
    /\ ReachesStatic(h) => StaticNix \in Dests(ms)

HostVariables == {"WAYLAND_DISPLAY", "CODEX_HOME"}

\* Mounts and variables of other places and other names.
Joins(ms, ns, f) ==
    /\ IsList(ns) /\ Distinct(ns)
    /\ Dests(ms) \cap Dests(ns) = {} /\ WaylandSocket \notin Dests(ns)
    /\ DOMAIN f \cap HostVariables = {}

\* It holds on when those join.
LEMMA HostViewGrows ==
  ASSUME NEW h, NEW c, NEW ms, NEW e, NEW ns, NEW f, HostView(h, c, ms, e), Joins(ms, ns, f)
  PROVE  HostView(h, c, ms \o ns, Over(f, e))
  <1> DEFINE all == ms \o ns
             g == Over(f, e)
  <1>1. /\ IsList(all) /\ ToSet(all) = ToSet(ms) \cup ToSet(ns)
        /\ Dests(all) = Dests(ms) \cup Dests(ns)
        /\ Apart(all, UserMounts(h))
    <2>1. /\ IsList(ms) /\ Apart(ms, UserMounts(h))
          /\ IsList(ns) /\ Apart(ns, UserMounts(h))
      BY DEF HostView, Joins, Apart, Distinct
    <2>2. ApartFrom(ms, ns, UserMounts(h))
      BY DEF ApartFrom, Joins, Dests
    <2>3. QED
      BY <2>1, <2>2, ListsJoin
  <1>2. /\ DOMAIN g = DOMAIN f \cup DOMAIN e
        /\ \A v \in DOMAIN e \ DOMAIN f : g[v] = e[v]
    BY OverIs
  <1> HIDE DEF all, g
  <1>3. \A v \in HostVariables : /\ v \in DOMAIN g <=> v \in DOMAIN e
                                 /\ v \in DOMAIN e => g[v] = e[v]
    BY <1>2 DEF Joins
  <1>4. /\ "WAYLAND_DISPLAY" \in DOMAIN g <=> "WAYLAND_DISPLAY" \in DOMAIN e
        /\ "WAYLAND_DISPLAY" \in DOMAIN e => g["WAYLAND_DISPLAY"] = e["WAYLAND_DISPLAY"]
        /\ "CODEX_HOME" \in DOMAIN g <=> "CODEX_HOME" \in DOMAIN e
        /\ "CODEX_HOME" \in DOMAIN e => g["CODEX_HOME"] = e["CODEX_HOME"]
    BY <1>3 DEF HostVariables
  <1>5. WaylandSocket \in Dests(all) <=> WaylandSocket \in Dests(ms)
    BY <1>1 DEF Joins
  <1>6. c.runtime = "codex" =>
           \E m \in ToSet(all) :
              /\ ~m.readOnly
              /\ m.destination = IF "CODEX_HOME" \in DOMAIN g THEN g["CODEX_HOME"]
                                                              ELSE CodexDirectory
    <2>1. SUFFICES ASSUME c.runtime = "codex"
                   PROVE  \E m \in ToSet(all) :
                             /\ ~m.readOnly
                             /\ m.destination = IF "CODEX_HOME" \in DOMAIN g THEN g["CODEX_HOME"]
                                                                             ELSE CodexDirectory
      OBVIOUS
    <2>2. PICK m \in ToSet(ms) :
             /\ ~m.readOnly
             /\ m.destination = IF "CODEX_HOME" \in DOMAIN e THEN e["CODEX_HOME"]
                                                             ELSE CodexDirectory
      BY <2>1 DEF HostView
    <2>3. QED
      BY <1>1, <1>4, <2>2
  <1>7. HostView(h, c, all, g)
    BY <1>1, <1>4, <1>5, <1>6 DEF HostView
  <1>8. QED
    BY <1>7 DEF all, g

\* The places of a specification that is built.
BuiltDests ==
    {VolumeDestination} \cup NixDests(TRUE) \cup StateDests \cup {WaylandSocket}

PassedDests == BuiltDests \cup {ExcludesFile, AgentSocket}

\* No two places that agentbox chose are the same.
LEMMA PlacesDiffer ==
  /\ VolumeDestination \notin NixDests(TRUE)
  /\ \A d \in FixedStateDests : d # VolumeDestination /\ d \notin NixDests(TRUE)
  /\ WaylandSocket \notin {VolumeDestination} \cup NixDests(TRUE) \cup StateDests
  /\ ExcludesFile \notin BuiltDests /\ AgentSocket \notin BuiltDests
  /\ KnownHostsFile \notin PassedDests
  /\ WaylandSocket \notin {ExcludesFile, AgentSocket, KnownHostsFile}
  /\ \A static \in BOOLEAN : NixDests(static) \subseteq NixDests(TRUE)
  <1>1. NixDests(TRUE) = {<<"/nix">>, <<"/usr/local/bin/nix">>, <<"/etc/nix">>, StaticNix}
    BY DEF NixDests
  <1>2. \A static \in BOOLEAN : NixDests(static) \subseteq NixDests(TRUE)
    BY DEF NixDests
  <1>3. /\ VolumeDestination \notin NixDests(TRUE)
        /\ \A d \in FixedStateDests : d # VolumeDestination /\ d \notin NixDests(TRUE)
    <2>1. VolumeDestination \notin NixDests(TRUE)
      BY <1>1 DEF VolumeDestination, StaticNix
    <2>2. VolumeDestination \notin FixedStateDests
      BY DEF VolumeDestination, FixedStateDests, CodexDirectory
    <2>3. /\ <<"/nix">> \notin FixedStateDests /\ <<"/usr/local/bin/nix">> \notin FixedStateDests
          /\ <<"/etc/nix">> \notin FixedStateDests /\ StaticNix \notin FixedStateDests
      BY DEF StaticNix, FixedStateDests, CodexDirectory
    <2>4. QED
      BY <1>1, <2>1, <2>2, <2>3
  <1>4. WaylandSocket \notin {VolumeDestination} \cup NixDests(TRUE) \cup StateDests
    BY <1>1 DEF VolumeDestination, StaticNix, StateDests, FixedStateDests, RootPaths,
                CodexDirectory, WaylandSocket
  <1>5. /\ ExcludesFile \notin {VolumeDestination} \cup NixDests(TRUE) \cup StateDests
        /\ AgentSocket \notin {VolumeDestination} \cup NixDests(TRUE) \cup StateDests
        /\ KnownHostsFile \notin {VolumeDestination} \cup NixDests(TRUE) \cup StateDests
    BY <1>1 DEF VolumeDestination, StaticNix, StateDests, FixedStateDests, RootPaths,
                CodexDirectory, ExcludesFile, AgentSocket, KnownHostsFile
  <1>6. /\ WaylandSocket \notin {ExcludesFile, AgentSocket, KnownHostsFile}
        /\ KnownHostsFile \notin {ExcludesFile, AgentSocket}
    BY DEF WaylandSocket, ExcludesFile, AgentSocket, KnownHostsFile
  <1>7. QED
    BY <1>2, <1>3, <1>4, <1>5, <1>6 DEF BuiltDests, PassedDests

\* run_spec, the runtime's environment and the Wayland socket
LEMMA BuiltIs ==
  ASSUME NEW h, NEW c \in Commands, Passes(h, c.runtime, Mode(c))
  PROVE  LET ms == BuiltMounts(h, c)
             e == BuiltEnv(h, c)
         IN  /\ HostView(h, c, ms, e)
             /\ NotTemporary(ms) /\ Dests(ms) \subseteq BuiltDests
             /\ DOMAIN e \cap (GitVariables \cup {"GIT_SSH_COMMAND"}) = {}
  <1> DEFINE static == ReachesStatic(h)
             specs == HostStateMounts(c.runtime, Mode(c))
             base == <<Bind(GitRoot(h), GitRoot(h)), Volume(<<"cache">>, VolumeDestination)>>
             X == UserMounts(h)
             nix == HostNixMounts(static)
             state == RuntimeMounts(h, specs)
             fixed == base \o nix
             some == fixed \o state
             w == Wayland(h)
             re == RuntimeEnvironment(h, specs)
             de == DefaultEnvironment(c.runtime)
             first == Over(re, de)
  <1>1. static \in BOOLEAN
    BY DEF ReachesStatic
  <1>2. c.runtime \in RuntimeKinds
    BY ModeIs
  <1>3. /\ IsList(base) /\ Dests(base) = {GitRoot(h), VolumeDestination} /\ Apart(base, X)
        /\ NotTemporary(base)
        /\ \A m \in ToSet(base) : m \in X \/ m.destination = VolumeDestination
    BY WorkspaceMounts
  <1> HIDE DEF static, base
  <1>4. /\ IsList(nix) /\ Dests(nix) = NixDests(static) /\ Distinct(nix) /\ NotTemporary(nix)
    BY <1>1, NixMounts
  <1>5. /\ IsList(state) /\ Distinct(state) /\ NotTemporary(state)
        /\ Dests(state) \subseteq StateDests
        /\ \A m \in ToSet(state) : m \in X \/ m.destination \in FixedStateDests
        /\ DOMAIN re \subseteq {"CODEX_HOME"}
        /\ "CODEX_HOME" \in DOMAIN re => re["CODEX_HOME"] \in Dests(state)
        /\ c.runtime = "codex" =>
              \E m \in ToSet(state) :
                 /\ ~m.readOnly
                 /\ m.destination = IF "CODEX_HOME" \in DOMAIN re THEN re["CODEX_HOME"]
                                                                  ELSE CodexDirectory
    BY <1>2, StateMounts
  <1>6. /\ IsList(w.mounts) /\ Distinct(w.mounts) /\ NotTemporary(w.mounts)
        /\ Dests(w.mounts) \subseteq {WaylandSocket}
        /\ DOMAIN w.env \subseteq {"WAYLAND_DISPLAY"}
        /\ WaylandSocket \in Dests(w.mounts) <=> "WAYLAND_DISPLAY" \in DOMAIN w.env
        /\ "WAYLAND_DISPLAY" \in DOMAIN w.env => w.env["WAYLAND_DISPLAY"] = WaylandSocket
    BY WaylandIs
  <1>7. DOMAIN de \subseteq {"OPENCODE_CONFIG_CONTENT", "OPENCODE_PERMISSION"}
    <2>1. CASE c.runtime = "codex"
      <3>1. de = << >>
        BY <2>1 DEF DefaultEnvironment
      <3>2. QED
        BY <3>1
    <2>2. CASE c.runtime # "codex"
      BY <2>2 DEF DefaultEnvironment
    <2>3. QED
      BY <2>1, <2>2
  <1>8. BuiltMounts(h, c) = some \o w.mounts /\ BuiltEnv(h, c) = Over(w.env, first)
    BY DEF BuiltMounts, BuiltEnv, MountsForWorkspace, static, base
  <1> HIDE DEF nix, state, w, re, de, X
  <1>9. /\ DOMAIN first = DOMAIN re \cup DOMAIN de
        /\ \A v \in DOMAIN re : first[v] = re[v]
    BY OverIs
  <1>10. /\ DOMAIN Over(w.env, first) = DOMAIN w.env \cup DOMAIN first
         /\ \A v \in DOMAIN w.env : Over(w.env, first)[v] = w.env[v]
         /\ \A v \in DOMAIN first \ DOMAIN w.env : Over(w.env, first)[v] = first[v]
    BY OverIs
  <1> HIDE DEF first
  <1>11. NixDests(static) \subseteq NixDests(TRUE)
    BY <1>1, PlacesDiffer
  <1>12. /\ IsList(fixed) /\ ToSet(fixed) = ToSet(base) \cup ToSet(nix)
         /\ Dests(fixed) = Dests(base) \cup Dests(nix) /\ Apart(fixed, X)
    <2>1. Apart(nix, X)
      BY <1>4 DEF Apart, Distinct
    <2>2. \A n \in ToSet(nix) : n.destination \in NixDests(TRUE)
      BY <1>4, <1>11 DEF Dests
    <2>3. ApartFrom(base, nix, X)
      BY <1>3, <2>2, PlacesDiffer DEF ApartFrom
    <2>4. QED
      BY <1>3, <1>4, <2>1, <2>3, ListsJoin
  <1> HIDE DEF fixed
  <1>13. /\ IsList(some) /\ ToSet(some) = ToSet(fixed) \cup ToSet(state)
         /\ Dests(some) = Dests(fixed) \cup Dests(state)
         /\ Apart(some, X)
    <2>1. Apart(state, X)
      BY <1>5 DEF Apart, Distinct
    <2>2. \A m \in ToSet(fixed) :
             m \in X \/ m.destination \in {VolumeDestination} \cup NixDests(TRUE)
      BY <1>3, <1>4, <1>11, <1>12 DEF Dests
    <2>3. ApartFrom(fixed, state, X)
      BY <1>5, <2>2, PlacesDiffer DEF ApartFrom
    <2>4. QED
      BY <1>5, <1>12, <2>1, <2>3, ListsJoin
  <1> HIDE DEF some
  <1>14. Dests(some) \subseteq {VolumeDestination} \cup NixDests(TRUE) \cup StateDests
    <2>1. GitRoot(h) \in StateDests
      BY PathsAre DEF StateDests
    <2>2. QED
      BY <1>3, <1>4, <1>5, <1>11, <1>12, <1>13, <2>1
  <1> DEFINE ms == some \o w.mounts
             e == Over(w.env, first)
  <1>15. /\ IsList(ms) /\ ToSet(ms) = ToSet(some) \cup ToSet(w.mounts)
         /\ Dests(ms) = Dests(some) \cup Dests(w.mounts)
         /\ Apart(ms, X)
    <2>1. Dests(some) \cap Dests(w.mounts) = {}
      BY <1>6, <1>14, PlacesDiffer
    <2>2. Apart(w.mounts, X) /\ ApartFrom(some, w.mounts, X)
      BY <1>6, <2>1 DEF Apart, ApartFrom, Distinct, Dests
    <2>3. QED
      BY <1>6, <1>13, <2>2, ListsJoin
  <1> HIDE DEF ms, e
  <1>16. /\ DOMAIN e \subseteq {"WAYLAND_DISPLAY", "CODEX_HOME", "OPENCODE_CONFIG_CONTENT",
                               "OPENCODE_PERMISSION"}
         /\ "WAYLAND_DISPLAY" \in DOMAIN e <=> "WAYLAND_DISPLAY" \in DOMAIN w.env
         /\ "WAYLAND_DISPLAY" \in DOMAIN w.env => e["WAYLAND_DISPLAY"] = w.env["WAYLAND_DISPLAY"]
         /\ "CODEX_HOME" \in DOMAIN e <=> "CODEX_HOME" \in DOMAIN re
         /\ "CODEX_HOME" \in DOMAIN re => e["CODEX_HOME"] = re["CODEX_HOME"]
    BY <1>5, <1>6, <1>7, <1>9, <1>10 DEF e
  <1>17. WaylandSocket \in Dests(ms) <=> WaylandSocket \in Dests(w.mounts)
    BY <1>14, <1>15, PlacesDiffer
  <1>18. ReachesStatic(h) => StaticNix \in Dests(ms)
    BY <1>4, <1>12, <1>13, <1>15 DEF NixDests, static
  <1>19. HostView(h, c, ms, e)
    <2>1. "CODEX_HOME" \in DOMAIN e => e["CODEX_HOME"] \in Dests(ms)
      BY <1>5, <1>13, <1>15, <1>16
    <2>2. c.runtime = "codex" =>
             \E m \in ToSet(ms) :
                /\ ~m.readOnly
                /\ m.destination = IF "CODEX_HOME" \in DOMAIN e THEN e["CODEX_HOME"]
                                                                ELSE CodexDirectory
      BY <1>5, <1>13, <1>15, <1>16
    <2>3. QED
      BY <1>6, <1>15, <1>16, <1>17, <1>18, <2>1, <2>2 DEF HostView, X
  <1>20. NotTemporary(ms)
    BY <1>3, <1>4, <1>5, <1>6, <1>12, <1>13, <1>15 DEF NotTemporary
  <1>21. Dests(ms) \subseteq BuiltDests
    BY <1>6, <1>14, <1>15 DEF BuiltDests
  <1>22. DOMAIN e \cap (GitVariables \cup {"GIT_SSH_COMMAND"}) = {}
    BY <1>16 DEF GitVariables
  <1>23. QED
    BY <1>8, <1>19, <1>20, <1>21, <1>22 DEF ms, e

\* apply_git_and_ssh_passthrough up to the known hosts
LEMMA PassedIs ==
  ASSUME NEW h, NEW c \in Commands, Passes(h, c.runtime, Mode(c))
  PROVE  LET ms == PassedMounts(h, c)
             e == PassedEnv(h, c)
         IN  /\ HostView(h, c, ms, e) /\ GitView(h, ms, e)
             /\ NotTemporary(ms) /\ Dests(ms) \subseteq PassedDests
             /\ "GIT_SSH_COMMAND" \notin DOMAIN e
  <1> DEFINE built == BuiltMounts(h, c)
             first == BuiltEnv(h, c)
             signing == CommitSigning(h, GitIdentity(c))
             ns == signing.mounts
             f == signing.env
             ms == built \o ns
             e == Over(f, first)
  <1>1. /\ HostView(h, c, built, first)
        /\ NotTemporary(built) /\ Dests(built) \subseteq BuiltDests
        /\ DOMAIN first \cap (GitVariables \cup {"GIT_SSH_COMMAND"}) = {}
    BY BuiltIs
  <1>2. /\ IsList(ns) /\ Distinct(ns) /\ NotTemporary(ns)
        /\ Dests(ns) \subseteq {ExcludesFile, AgentSocket}
        /\ DOMAIN f \subseteq GitVariables
        /\ GitView(h, ns, f)
    BY CommitSigningIs
  <1>3. PassedMounts(h, c) = ms /\ PassedEnv(h, c) = e
    BY DEF PassedMounts, PassedEnv
  <1> HIDE DEF built, first, signing, ns, f
  <1>4. Dests(built) \cap Dests(ns) = {} /\ WaylandSocket \notin Dests(ns)
    BY <1>1, <1>2, PlacesDiffer
  <1>5. DOMAIN f \cap HostVariables = {}
    BY <1>2 DEF GitVariables, HostVariables
  <1>6. /\ HostView(h, c, ms, e)
        /\ ToSet(ms) = ToSet(built) \cup ToSet(ns)
        /\ Dests(ms) = Dests(built) \cup Dests(ns)
    <2>1. HostView(h, c, built, first) /\ Joins(built, ns, f)
      BY <1>1, <1>2, <1>4, <1>5 DEF Joins
    <2>2. HostView(h, c, ms, e)
      BY <2>1, HostViewGrows
    <2>3. IsList(built)
      BY <2>1 DEF HostView
    <2>4. ToSet(ms) = ToSet(built) \cup ToSet(ns) /\ Dests(ms) = Dests(built) \cup Dests(ns)
      BY <1>2, <2>3, ListsJoin
    <2>5. QED
      BY <2>2, <2>4
  <1>7. /\ DOMAIN e = DOMAIN f \cup DOMAIN first
        /\ \A v \in DOMAIN f : e[v] = f[v]
        /\ \A v \in DOMAIN first \ DOMAIN f : e[v] = first[v]
    BY OverIs
  <1> HIDE DEF ms, e
  <1>8. GitView(h, ms, e)
    <2>1. AgentSocket \in Dests(ms) <=> AgentSocket \in Dests(ns)
      BY <1>1, <1>6, PlacesDiffer
    <2>2. ExcludesFile \in Dests(ms) <=> ExcludesFile \in Dests(ns)
      BY <1>1, <1>6, PlacesDiffer
    <2>3. /\ "SSH_AUTH_SOCK" \in DOMAIN e <=> "SSH_AUTH_SOCK" \in DOMAIN f
          /\ "SSH_AUTH_SOCK" \in DOMAIN f => e["SSH_AUTH_SOCK"] = f["SSH_AUTH_SOCK"]
          /\ "GIT_CONFIG" \in DOMAIN e <=> "GIT_CONFIG" \in DOMAIN f
          /\ "GIT_CONFIG" \in DOMAIN f => e["GIT_CONFIG"] = f["GIT_CONFIG"]
      BY <1>1, <1>7 DEF GitVariables
    <2>4. EntriesOf(e) = EntriesOf(f)
      BY <2>3 DEF EntriesOf
    <2>5. QED
      BY <1>2, <2>1, <2>2, <2>3, <2>4 DEF GitView
  <1>9. NotTemporary(ms)
    BY <1>1, <1>2, <1>6 DEF NotTemporary
  <1>10. Dests(ms) \subseteq PassedDests
    BY <1>1, <1>2, <1>6 DEF PassedDests
  <1>11. "GIT_SSH_COMMAND" \notin DOMAIN e
    BY <1>1, <1>2, <1>7 DEF GitVariables
  <1>12. QED
    BY <1>3, <1>6, <1>8, <1>9, <1>10, <1>11

\* prepare_with: the known hosts, when there is an agent.
LEMMA KnownIs ==
  ASSUME NEW h, NEW c \in Commands, NEW lines, Passes(h, c.runtime, Mode(c))
  PROVE  LET k == KnownHosts(h, lines)
             ms == PassedMounts(h, c) \o k.mounts
             e == Over(k.env, PassedEnv(h, c))
         IN  /\ HostView(h, c, ms, e) /\ GitView(h, ms, e)
             /\ k.mounts = <<>> => NotTemporary(ms)
             /\ KnownHostsFile \in Dests(ms) <=> "GIT_SSH_COMMAND" \in DOMAIN e
             /\ h.tempFiles => \A l \in HostLines(h) :
                   "GIT_SSH_COMMAND" \in DOMAIN e /\ l \in e["GIT_SSH_COMMAND"][2]
  <1> DEFINE k == KnownHosts(h, lines)
             ns == k.mounts
             f == k.env
             passed == PassedMounts(h, c)
             second == PassedEnv(h, c)
             ms == passed \o ns
             e == Over(f, second)
  <1>1. /\ HostView(h, c, passed, second) /\ GitView(h, passed, second)
        /\ NotTemporary(passed) /\ Dests(passed) \subseteq PassedDests
        /\ "GIT_SSH_COMMAND" \notin DOMAIN second
    BY PassedIs
  <1>2. /\ IsList(ns) /\ Distinct(ns)
        /\ Dests(ns) \subseteq {KnownHostsFile}
        /\ DOMAIN f \subseteq {"GIT_SSH_COMMAND"}
        /\ KnownHostsFile \in Dests(ns) <=> "GIT_SSH_COMMAND" \in DOMAIN f
        /\ ns = <<>> => NotTemporary(ns)
        /\ h.tempFiles => \A l \in HostLines(h) :
              "GIT_SSH_COMMAND" \in DOMAIN f /\ l \in f["GIT_SSH_COMMAND"][2]
    BY KnownHostsIs
  <1> HIDE DEF k, ns, f, passed, second
  <1>3. Dests(passed) \cap Dests(ns) = {} /\ WaylandSocket \notin Dests(ns)
    BY <1>1, <1>2, PlacesDiffer
  <1>4. DOMAIN f \cap HostVariables = {}
    BY <1>2 DEF HostVariables
  <1>5. /\ HostView(h, c, ms, e)
        /\ ToSet(ms) = ToSet(passed) \cup ToSet(ns)
        /\ Dests(ms) = Dests(passed) \cup Dests(ns)
    <2>1. HostView(h, c, passed, second) /\ Joins(passed, ns, f)
      BY <1>1, <1>2, <1>3, <1>4 DEF Joins
    <2>2. HostView(h, c, ms, e)
      BY <2>1, HostViewGrows
    <2>3. IsList(passed)
      BY <2>1 DEF HostView
    <2>4. ToSet(ms) = ToSet(passed) \cup ToSet(ns) /\ Dests(ms) = Dests(passed) \cup Dests(ns)
      BY <1>2, <2>3, ListsJoin
    <2>5. QED
      BY <2>2, <2>4
  <1>6. /\ DOMAIN e = DOMAIN f \cup DOMAIN second
        /\ \A v \in DOMAIN f : e[v] = f[v]
        /\ \A v \in DOMAIN second \ DOMAIN f : e[v] = second[v]
    BY OverIs
  <1> HIDE DEF ms, e
  <1>7. GitView(h, ms, e)
    <2>1. AgentSocket # KnownHostsFile /\ ExcludesFile # KnownHostsFile
      BY PlacesDiffer DEF PassedDests
    <2>2. /\ AgentSocket \in Dests(ms) <=> AgentSocket \in Dests(passed)
          /\ ExcludesFile \in Dests(ms) <=> ExcludesFile \in Dests(passed)
      BY <1>2, <1>5, <2>1
    <2>3. /\ "SSH_AUTH_SOCK" \in DOMAIN e <=> "SSH_AUTH_SOCK" \in DOMAIN second
          /\ "SSH_AUTH_SOCK" \in DOMAIN second => e["SSH_AUTH_SOCK"] = second["SSH_AUTH_SOCK"]
          /\ "GIT_CONFIG" \in DOMAIN e <=> "GIT_CONFIG" \in DOMAIN second
          /\ "GIT_CONFIG" \in DOMAIN second => e["GIT_CONFIG"] = second["GIT_CONFIG"]
      BY <1>2, <1>6
    <2>4. EntriesOf(e) = EntriesOf(second)
      BY <2>3 DEF EntriesOf
    <2>5. QED
      BY <1>1, <2>2, <2>3, <2>4 DEF GitView
  <1>8. ns = <<>> => NotTemporary(ms)
    BY <1>1, <1>2, <1>5 DEF NotTemporary
  <1>9. KnownHostsFile \in Dests(ms) <=> "GIT_SSH_COMMAND" \in DOMAIN e
    BY <1>1, <1>2, <1>5, <1>6, PlacesDiffer
  <1>10. h.tempFiles => \A l \in HostLines(h) :
            "GIT_SSH_COMMAND" \in DOMAIN e /\ l \in e["GIT_SSH_COMMAND"][2]
    BY <1>2, <1>6
  <1>11. QED
    BY <1>5, <1>7, <1>8, <1>9, <1>10 DEF ms, e, k, ns, f, passed, second

\* A line of the host's about a remote's own name is among the lines read.
LEMMA HostLinesHold ==
  ASSUME NEW h, h.keygen = "ok", NEW r \in SshRemoteHosts(h), NEW f \in DOMAIN h.knownFiles,
         f \in SshHostConfig(h, r).files,
         FormatKnownHost(r.host, r.port) \in h.knownFiles[f]
  PROVE  FormatKnownHost(r.host, r.port) \in HostLines(h)
  <1> DEFINE name == FormatKnownHost(r.host, r.port)
             lookups(x) == (SshHostConfig(h, x).files \cap DOMAIN h.knownFiles)
                              \X SshHostConfig(h, x).names
             asked == UNION {lookups(x) : x \in SshRemoteHosts(h)}
  <1>1. name \in SshHostConfig(h, r).names
    BY DEF SshHostConfig, LookupNames
  <1> HIDE DEF name
  <1>2. <<f, name>> \in lookups(r)
    BY <1>1
  <1>3. <<f, name>> \in asked
    BY <1>2
  <1>4. HostLines(h) = UNION {{x \in h.knownFiles[q[1]] : x = q[2]} : q \in asked}
    BY DEF HostLines
  <1> HIDE DEF asked
  <1>5. name \in h.knownFiles[f]
    BY DEF name
  <1>6. name \in {x \in h.knownFiles[<<f, name>>[1]] : x = <<f, name>>[2]}
    BY <1>5
  <1>7. name \in HostLines(h)
    BY <1>3, <1>4, <1>6
  <1>8. QED
    BY <1>7 DEF name

\* A specification with these views is what the property asks for.
LEMMA ViewsAreSound ==
  ASSUME NEW s, s.runtime = command.runtime, host.customLinks \in Seq(Locations),
         HostView(host, command, s.mounts, s.env), GitView(host, s.mounts, s.env),
         KnownHostsFile \in Dests(s.mounts) <=> "GIT_SSH_COMMAND" \in DOMAIN s.env,
         AgentAvailable(host) /\ host.tempFiles => \A l \in HostLines(host) :
             "GIT_SSH_COMMAND" \in DOMAIN s.env /\ l \in s.env["GIT_SSH_COMMAND"][2]
  PROVE  /\ EnvironmentIsBacked(s) /\ StateIsTheHosts(s) /\ MountsAreDistinct(s)
         /\ SigningIsBacked(s) /\ NixConfigResolves(s) /\ KnownHostsAreThere(s)
  <1>1. DestinationsOf(s) = Dests(s.mounts) /\ GitEntries(s) = EntriesOf(s.env)
    BY DEF DestinationsOf, Dests, GitEntries, EntriesOf
  <1>2. EnvironmentIsBacked(s)
    <2>1. Backed(s, "WAYLAND_DISPLAY", WaylandSocket)
      BY <1>1 DEF Backed, HostView
    <2>2. Backed(s, "SSH_AUTH_SOCK", AgentSocket)
      BY <1>1 DEF Backed, GitView
    <2>3. "CODEX_HOME" \in DOMAIN s.env => s.env["CODEX_HOME"] \in DestinationsOf(s)
      BY <1>1 DEF HostView
    <2>4. ExcludesEntry \in GitEntries(s) <=> ExcludesFile \in DestinationsOf(s)
      BY <1>1 DEF GitView
    <2>5. QED
      BY <1>1, <2>1, <2>2, <2>3, <2>4 DEF EnvironmentIsBacked, ExcludesEntry
  <1>3. StateIsTheHosts(s)
    BY DEF StateIsTheHosts, HostView, CodexDirectory
  <1>4. MountsAreDistinct(s)
    <2>1. \A m \in UserMounts(host) : UsersChoice(m)
      BY DEF UserMounts, UsersChoice
    <2>2. QED
      BY <2>1 DEF MountsAreDistinct, HostView, Apart
  <1>5. SigningIsBacked(s)
    BY <1>1 DEF SigningIsBacked, GitView, SigningKeys
  <1>6. NixConfigResolves(s)
    <2>1. SUFFICES ASSUME Len(host.customLinks) <= 2, "staticNix" \in ToSet(host.customLinks)
                   PROVE  StaticNix \in DestinationsOf(s)
      BY DEF NixConfigResolves, StaticNix
    <2> DEFINE links == host.customLinks
    <2>2. Len(links) \in Nat /\ DOMAIN links = 1 .. Len(links)
      OBVIOUS
    <2>3. PICK i \in DOMAIN links : links[i] = "staticNix"
      BY <2>1 DEF ToSet
    <2>4. i = 1 \/ i = Len(links)
      BY <2>1, <2>2, <2>3
    <2>5. links # <<>>
      BY <2>2, <2>3
    <2>6. ReachesStatic(host)
      BY <2>3, <2>4, <2>5 DEF ReachesStatic
    <2>7. QED
      BY <1>1, <2>6 DEF HostView
  <1>7. KnownHostsAreThere(s)
    <2>1. SUFFICES ASSUME AgentAvailable(host), host.keygen = "ok", host.tempFiles,
                          NEW r \in SshRemoteHosts(host), NEW f \in DOMAIN host.knownFiles,
                          f \in SshHostConfig(host, r).files,
                          FormatKnownHost(r.host, r.port) \in host.knownFiles[f]
                   PROVE  /\ "GIT_SSH_COMMAND" \in DOMAIN s.env
                          /\ FormatKnownHost(r.host, r.port) \in s.env["GIT_SSH_COMMAND"][2]
      BY DEF KnownHostsAreThere
    <2>2. FormatKnownHost(r.host, r.port) \in HostLines(host)
      BY <2>1, HostLinesHold
    <2>3. QED
      BY <2>1, <2>2
  <1>8. QED
    BY <1>2, <1>3, <1>4, <1>5, <1>6, <1>7

-----------------------------------------------------------------------------
(* The inductive invariant. *)

\* The known hosts joined, from some lines of the configuration, or there is
\* no agent.
Completed ==
    \/ /\ ~AgentAvailable(host)
       /\ spec.mounts = PassedMounts(host, command) /\ spec.env = PassedEnv(host, command)
    \/ /\ AgentAvailable(host)
       /\ \E lines :
             LET known == KnownHosts(host, lines)
             IN  /\ spec.mounts = PassedMounts(host, command) \o known.mounts
                 /\ spec.env = Over(known.env, PassedEnv(host, command))
                 /\ tempFile = (known.mounts # <<>>)

PassInv ==
    /\ host.customLinks \in Seq(Locations)
    /\ pc \in {"existing"} \cup PastExisting => Passes(host, command.runtime, Mode(command))
    /\ pc = "git" =>
          spec.mounts = BuiltMounts(host, command) /\ spec.env = BuiltEnv(host, command)
    /\ pc = "knownHosts" =>
          /\ AgentAvailable(host)
          /\ spec.mounts = PassedMounts(host, command) /\ spec.env = PassedEnv(host, command)
    /\ pc \in {"labels", "stop", "run"} => Completed
    /\ PassthroughIsSound

-----------------------------------------------------------------------------
(* The steps. *)

\* What a step adds to the mounts and the variables.
LEMMA PassthroughGives ==
  ASSUME NEW s, DOMAIN s = SpecFields, NEW ms, NEW e
  PROVE  LET t == ExtendEnv(AddMounts(s, ms), e)
         IN  t.mounts = s.mounts \o ms /\ t.env = Over(e, s.env)
  BY DEF ExtendEnv, AddMounts, SpecFields

\* The labels are the only thing a label changes.
LEMMA LabelsLeave ==
  ASSUME NEW s, DOMAIN s = SpecFields, NEW l
  PROVE  InsertLabels(s, l).mounts = s.mounts /\ InsertLabels(s, l).env = s.env
  BY DEF InsertLabels, SpecFields

\* A step before the specification, or after a failure.
LEMMA PassMoves ==
  ASSUME PassInv, UNCHANGED host, pc' \notin BuiltSteps \cup {"done"},
         pc' \in {"existing"} \cup PastExisting =>
            command' = command /\ Passes(host, command.runtime, Mode(command))
  PROVE  PassInv'
  <1>1. PassthroughIsSound'
    BY DEF PassthroughIsSound
  <1>2. pc' \in {"existing"} \cup PastExisting => Mode(command') = Mode(command)
    OBVIOUS
  <1>3. QED
    BY <1>1, <1>2 DEF PassInv, BuiltSteps

\* The property reads the host, the container and the environment only.
LEMMA SoundStays ==
  ASSUME PassthroughIsSound, UNCHANGED <<host, container, devEnv, pc>>
  PROVE  PassthroughIsSound'
  BY DEF PassthroughIsSound, EnvironmentIsBacked, StateIsTheHosts, MountsAreDistinct,
         SigningIsBacked, NixConfigResolves, KnownHostsAreThere, DevEnvIsInside,
         Backed, GitEntries, DestinationsOf, UsersChoice

\* Nothing of the launch changes.
LEMMA PassUnchanged ==
  ASSUME PassInv, UNCHANGED launchVars
  PROVE  PassInv'
  <1>1. UNCHANGED <<host, command, pc, spec, tempFile, container, devEnv>>
    BY DEF launchVars
  <1>2. PassthroughIsSound'
    BY <1>1, SoundStays DEF PassInv
  <1>3. Completed => Completed'
    BY <1>1 DEF Completed
  <1>4. QED
    BY <1>1, <1>2, <1>3 DEF PassInv

\* check_host_prerequisites, and the steps that read.
LEMMA ReadingPasses ==
  ASSUME PassInv,
         CheckPreflight \/ CheckExisting \/ ResolveEnvironment \/ CheckClient \/ EnsureImage
  PROVE  PassInv'
  <1>1. UNCHANGED <<host, command>>
    BY DEF Check, CheckPreflight, CheckExisting, ResolveEnvironment, CheckClient, EnsureImage
  <1>2. pc' \in {"existing", "devEnv", "client", "image", "token", "failed"}
    BY OrderIs DEF Check, Goto, Fail, CheckPreflight, CheckExisting, ResolveEnvironment,
                   CheckClient, EnsureImage
  <1>3. pc' # "failed" => Passes(host, command.runtime, Mode(command))
    <2>1. CASE CheckPreflight
      BY <2>1 DEF CheckPreflight, Check, Fail
    <2>2. CASE CheckExisting \/ ResolveEnvironment \/ CheckClient \/ EnsureImage
      <3>1. pc \in {"existing"} \cup PastExisting
        BY <2>2 DEF Check, CheckExisting, ResolveEnvironment, CheckClient, EnsureImage,
                    PastExisting
      <3>2. QED
        BY <3>1 DEF PassInv
    <2>3. QED
      BY <2>1, <2>2
  <1>4. QED
    BY <1>1, <1>2, <1>3, PassMoves DEF BuiltSteps, PastExisting

\* run_spec, the runtime's environment and the Wayland socket
LEMMA BuildSpecPasses ==
  ASSUME LaunchInv, PassInv, BuildSpec
  PROVE  PassInv'
  <1> DEFINE report == PreflightReport(host, command.runtime, Mode(command))
             specs == HostStateMounts(command.runtime, Mode(command))
             created == RunSpec(command.runtime, Mode(command), GitRoot(host), 1, report.nixMounts,
                                report.stateMounts, Invocation, ServerArgs, limits)
             wayland == Wayland(host)
             extended == ExtendEnv(created, report.environment)
  <1>1. /\ pc = "spec" /\ pc' = "git" /\ UNCHANGED <<host, command>>
        /\ spec' = ExtendEnv(AddMounts(extended, wayland.mounts), wayland.env)
    BY DEF BuildSpec, Goto
  <1>2. /\ report.nixMounts = HostNixMounts(ReachesStatic(host))
        /\ report.stateMounts = RuntimeMounts(host, specs)
        /\ report.environment = RuntimeEnvironment(host, specs)
    BY DEF PreflightReport, CustomConf
  <1> HIDE DEF report, wayland
  <1>3. /\ DOMAIN created = SpecFields
        /\ created.mounts = MountsForWorkspace(GitRoot(host), report.nixMounts, report.stateMounts)
        /\ created.env = DefaultEnvironment(command.runtime)
    BY DEF RunSpec, SpecFields
  <1> HIDE DEF created
  <1>4. /\ DOMAIN extended = SpecFields /\ extended.mounts = created.mounts
        /\ extended.env = Over(report.environment, created.env)
    BY <1>3 DEF ExtendEnv, SpecFields
  <1> HIDE DEF extended
  <1>5. /\ spec'.mounts = extended.mounts \o wayland.mounts
        /\ spec'.env = Over(wayland.env, extended.env)
    <2>1. DOMAIN extended = SpecFields
      BY <1>4
    <2> DEFINE t == ExtendEnv(AddMounts(extended, wayland.mounts), wayland.env)
    <2>2. t.mounts = extended.mounts \o wayland.mounts /\ t.env = Over(wayland.env, extended.env)
      BY <2>1, PassthroughGives
    <2>3. QED
      BY <1>1, <2>2
  <1> HIDE DEF specs
  <1>6. /\ spec'.mounts = BuiltMounts(host, command)
        /\ spec'.env = BuiltEnv(host, command)
    BY <1>2, <1>3, <1>4, <1>5 DEF BuiltMounts, BuiltEnv, wayland, specs
  <1>7. Passes(host, command.runtime, Mode(command))
    BY <1>1 DEF PassInv, PastExisting
  <1>8. PassthroughIsSound'
    BY <1>1 DEF PassthroughIsSound
  <1>9. QED
    BY <1>1, <1>6, <1>7, <1>8 DEF PassInv

\* apply_git_and_ssh_passthrough up to the known hosts
LEMMA PassGitPasses ==
  ASSUME LaunchInv, PassInv, PassGitAndAgent
  PROVE  PassInv'
  <1> DEFINE signing == CommitSigning(host, GitIdentity(command))
  <1>1. /\ pc = "git" /\ pc' = (IF AgentAvailable(host) THEN "knownHosts" ELSE "labels")
        /\ UNCHANGED <<host, command>>
        /\ spec' = ExtendEnv(AddMounts(spec, signing.mounts), signing.env)
    BY DEF PassGitAndAgent, Goto
  <1> HIDE DEF signing
  <1>2. DOMAIN spec = SpecFields
    BY <1>1 DEF LaunchInv, SpecInv, BuiltSteps
  <1>3. /\ spec'.mounts = spec.mounts \o signing.mounts
        /\ spec'.env = Over(signing.env, spec.env)
    BY <1>1, <1>2, PassthroughGives
  <1>4. spec'.mounts = PassedMounts(host, command) /\ spec'.env = PassedEnv(host, command)
    BY <1>1, <1>3 DEF PassInv, PassedMounts, PassedEnv, signing
  <1>5. Passes(host, command.runtime, Mode(command))
    BY <1>1 DEF PassInv, PastExisting, BuiltSteps
  <1>6. PassthroughIsSound'
    BY <1>1 DEF PassthroughIsSound
  <1>7. pc' = "labels" => Completed'
    BY <1>1, <1>4 DEF Completed
  <1>8. QED
    BY <1>1, <1>4, <1>5, <1>6, <1>7 DEF PassInv

\* prepare_with
LEMMA PassKnownHostsPasses ==
  ASSUME LaunchInv, PassInv, PassKnownHosts
  PROVE  PassInv'
  <1>1. PICK lines : lines = loading["launch"].config.knownHosts
    OBVIOUS
  <1> DEFINE known == KnownHosts(host, lines)
  <1>2. /\ pc = "knownHosts" /\ pc' = "labels" /\ UNCHANGED <<host, command>>
        /\ spec' = ExtendEnv(AddMounts(spec, known.mounts), known.env)
        /\ tempFile' = (known.mounts # <<>>)
    BY <1>1 DEF PassKnownHosts, GuardHeld
  <1>3. DOMAIN spec = SpecFields
    BY <1>2 DEF LaunchInv, SpecInv, BuiltSteps
  <1>4. /\ AgentAvailable(host)
        /\ spec.mounts = PassedMounts(host, command) /\ spec.env = PassedEnv(host, command)
        /\ Passes(host, command.runtime, Mode(command))
        /\ host.customLinks \in Seq(Locations)
    BY <1>2 DEF PassInv, PastExisting, BuiltSteps
  <1>5. Completed'
    <2> HIDE DEF known
    <2>1. /\ spec'.mounts = spec.mounts \o known.mounts
          /\ spec'.env = Over(known.env, spec.env)
      BY <1>2, <1>3, PassthroughGives
    <2>2. /\ spec'.mounts = PassedMounts(host', command') \o KnownHosts(host', lines).mounts
          /\ spec'.env = Over(KnownHosts(host', lines).env, PassedEnv(host', command'))
          /\ tempFile' = (KnownHosts(host', lines).mounts # <<>>)
      BY <1>2, <1>4, <2>1 DEF known
    <2>3. AgentAvailable(host')
      BY <1>2, <1>4
    <2>4. QED
      BY <2>2, <2>3 DEF Completed
  <1>6. PassthroughIsSound'
    BY <1>2 DEF PassthroughIsSound
  <1>7. QED
    BY <1>2, <1>4, <1>5, <1>6 DEF PassInv

\* record_managed_resource_limits
LEMMA RecordLabelsPasses ==
  ASSUME LaunchInv, PassInv, RecordLabels
  PROVE  PassInv'
  <1>1. /\ pc = "labels" /\ pc' \in {"stop", "run"} /\ UNCHANGED <<host, command, tempFile>>
    BY DEF RecordLabels, Goto
  <1>2. DOMAIN spec = SpecFields
    BY <1>1 DEF LaunchInv, SpecInv, BuiltSteps
  <1>3. PICK l : spec' = spec \/ spec' = InsertLabels(spec, l)
    BY DEF RecordLabels
  <1>4. spec'.mounts = spec.mounts /\ spec'.env = spec.env
    BY <1>2, <1>3, LabelsLeave
  <1>5. Completed'
    BY <1>1, <1>4 DEF PassInv, Completed
  <1>6. PassthroughIsSound'
    BY <1>1 DEF PassthroughIsSound
  <1>7. QED
    BY <1>1, <1>5, <1>6 DEF PassInv, PastExisting, BuiltSteps

\* restart stops the session it found.
LEMMA StopExistingPasses ==
  ASSUME PassInv, StopExisting
  PROVE  PassInv'
  <1>1. /\ pc = "stop" /\ UNCHANGED <<host, command, spec>>
        /\ \/ pc' = "run" /\ UNCHANGED tempFile
           \/ pc' = "failed"
    BY DEF StopExisting, Goto, Fail
  <1>2. CASE pc' = "run" /\ UNCHANGED tempFile
    <2>1. Completed'
      BY <1>1, <1>2 DEF PassInv, Completed
    <2>2. PassthroughIsSound'
      BY <1>2 DEF PassthroughIsSound
    <2>3. QED
      BY <1>1, <1>2, <2>1, <2>2 DEF PassInv, PastExisting, BuiltSteps
  <1>3. CASE pc' = "failed"
    BY <1>1, <1>3, PassMoves DEF BuiltSteps, PastExisting
  <1>4. QED
    BY <1>1, <1>2, <1>3

\* What podman run is given.
LEMMA SpecIsSound ==
  ASSUME LaunchInv, PassInv, pc = "run"
  PROVE  /\ EnvironmentIsBacked(spec) /\ StateIsTheHosts(spec) /\ MountsAreDistinct(spec)
         /\ SigningIsBacked(spec) /\ NixConfigResolves(spec) /\ KnownHostsAreThere(spec)
         /\ DevEnvIsInside
         /\ \A i \in DOMAIN spec.mounts : spec.mounts[i].source = TemporaryFile => tempFile
  <1>1. /\ command \in Commands /\ Passes(host, command.runtime, Mode(command))
        /\ host.customLinks \in Seq(Locations) /\ Completed
        /\ spec.runtime = command.runtime
    BY DEF LaunchInv, ControlInv, SpecInv, PassInv, PastExisting, BuiltSteps
  <1>2. DevEnvIsInside
    BY DEF LaunchInv, ControlInv, DevEnvIsInside
  <1>3. ASSUME NotTemporary(spec.mounts) \/ tempFile
        PROVE  \A i \in DOMAIN spec.mounts : spec.mounts[i].source = TemporaryFile => tempFile
    BY <1>3 DEF NotTemporary, ToSet
  <1> DEFINE Views ==
        /\ HostView(host, command, spec.mounts, spec.env) /\ GitView(host, spec.mounts, spec.env)
        /\ KnownHostsFile \in Dests(spec.mounts) <=> "GIT_SSH_COMMAND" \in DOMAIN spec.env
        /\ AgentAvailable(host) /\ host.tempFiles => \A l \in HostLines(host) :
            "GIT_SSH_COMMAND" \in DOMAIN spec.env /\ l \in spec.env["GIT_SSH_COMMAND"][2]
        /\ NotTemporary(spec.mounts) \/ tempFile
  <1>4. Views
    <2>1. CASE /\ ~AgentAvailable(host)
               /\ spec.mounts = PassedMounts(host, command) /\ spec.env = PassedEnv(host, command)
      <3>1. /\ HostView(host, command, spec.mounts, spec.env)
            /\ GitView(host, spec.mounts, spec.env)
            /\ NotTemporary(spec.mounts) /\ Dests(spec.mounts) \subseteq PassedDests
            /\ "GIT_SSH_COMMAND" \notin DOMAIN spec.env
        BY <1>1, <2>1, PassedIs
      <3>2. KnownHostsFile \notin Dests(spec.mounts)
        BY <3>1, PlacesDiffer
      <3>3. QED
        BY <2>1, <3>1, <3>2
    <2>2. ASSUME AgentAvailable(host), NEW lines,
                 LET known == KnownHosts(host, lines)
                 IN  /\ spec.mounts = PassedMounts(host, command) \o known.mounts
                     /\ spec.env = Over(known.env, PassedEnv(host, command))
                     /\ tempFile = (known.mounts # <<>>)
          PROVE  Views
      <3> DEFINE known == KnownHosts(host, lines)
      <3>1. /\ HostView(host, command, spec.mounts, spec.env)
            /\ GitView(host, spec.mounts, spec.env)
            /\ known.mounts = <<>> => NotTemporary(spec.mounts)
            /\ KnownHostsFile \in Dests(spec.mounts) <=> "GIT_SSH_COMMAND" \in DOMAIN spec.env
            /\ host.tempFiles => \A l \in HostLines(host) :
                  "GIT_SSH_COMMAND" \in DOMAIN spec.env /\ l \in spec.env["GIT_SSH_COMMAND"][2]
        BY <1>1, <2>2, KnownIs
      <3>2. tempFile = (known.mounts # <<>>)
        BY <2>2
      <3> HIDE DEF known
      <3>3. QED
        BY <3>1, <3>2
    <2>3. QED
      BY <1>1, <2>1, <2>2 DEF Completed
  <1>5. /\ EnvironmentIsBacked(spec) /\ StateIsTheHosts(spec) /\ MountsAreDistinct(spec)
        /\ SigningIsBacked(spec) /\ NixConfigResolves(spec) /\ KnownHostsAreThere(spec)
    BY <1>1, <1>4, ViewsAreSound
  <1>6. QED
    BY <1>2, <1>3, <1>4, <1>5

\* podman run
LEMMA RunContainerPasses ==
  ASSUME LaunchInv, PassInv, RunContainer
  PROVE  PassInv'
  <1>1. /\ pc = "run" /\ UNCHANGED <<host, command, devEnv>>
        /\ \/ container' = Started /\ pc' = "done"
           \/ pc' = "failed"
    BY DEF RunContainer, Fail
  <1>2. CASE container' = Started /\ pc' = "done"
    <2>1. /\ EnvironmentIsBacked(spec) /\ StateIsTheHosts(spec) /\ MountsAreDistinct(spec)
          /\ SigningIsBacked(spec) /\ NixConfigResolves(spec) /\ KnownHostsAreThere(spec)
          /\ DevEnvIsInside
          /\ \A i \in DOMAIN spec.mounts : spec.mounts[i].source = TemporaryFile => tempFile
      BY <1>1, SpecIsSound
    <2>2. PICK s : s = spec
      OBVIOUS
    <2>3. /\ Started.spec = spec
          /\ Started.mounted = \A i \in DOMAIN spec.mounts :
                                  spec.mounts[i].source = <<"temporaryFile">> => tempFile
      BY Zenon DEF Started
    <2>4. container'.spec = s /\ container'.mounted
      BY <1>2, <2>1, <2>2, <2>3 DEF TemporaryFile
    <2>5. (/\ EnvironmentIsBacked(s) /\ StateIsTheHosts(s) /\ MountsAreDistinct(s)
           /\ SigningIsBacked(s) /\ NixConfigResolves(s) /\ KnownHostsAreThere(s)
           /\ DevEnvIsInside)'
      <3>1. /\ EnvironmentIsBacked(s)' /\ StateIsTheHosts(s)' /\ SigningIsBacked(s)'
        BY <2>1, <2>2 DEF EnvironmentIsBacked, Backed, DestinationsOf, GitEntries,
                          StateIsTheHosts, SigningIsBacked
      <3>2. /\ MountsAreDistinct(s)' /\ NixConfigResolves(s)' /\ KnownHostsAreThere(s)'
            /\ DevEnvIsInside'
        BY <1>1, <2>1, <2>2 DEF MountsAreDistinct, UsersChoice, NixConfigResolves, DestinationsOf,
                                KnownHostsAreThere, DevEnvIsInside
      <3>3. QED
        BY <3>1, <3>2
    <2>6. PassthroughIsSound'
      BY <2>4, <2>5 DEF PassthroughIsSound
    <2>7. QED
      BY <1>1, <1>2, <2>6 DEF PassInv, PastExisting, BuiltSteps
  <1>3. CASE pc' = "failed"
    BY <1>1, <1>3, PassMoves DEF BuiltSteps, PastExisting
  <1>4. QED
    BY <1>1, <1>2, <1>3

-----------------------------------------------------------------------------
(* The theorem. *)

\* The views of the host hold of every launch, from the preflight to the
\* container.
LEMMA PassInvCorrect == Spec => []PassInv
  <1>1. Init => PassInv
    <2> SUFFICES ASSUME Init PROVE PassInv
      OBVIOUS
    <2>1. PICK s \in Scenarios : host = s.host
      BY DEF Init
    <2>2. host.customLinks \in Seq(Locations)
      BY <2>1, LaunchAssumption
    <2>3. pc \in {"workspace", "config"}
      BY DEF Init, FirstStep
    <2>4. QED
      BY <2>2, <2>3 DEF PassInv, PassthroughIsSound, PastExisting, BuiltSteps
  <1>2. LaunchInv /\ PassInv /\ [Next]_vars => PassInv'
    <2> SUFFICES ASSUME LaunchInv, PassInv, [Next]_vars PROVE PassInv'
      OBVIOUS
    <2>1. CASE \/ UNCHANGED vars \/ LoadLimits \/ LoadKnownHosts \/ OtherCommand \/ Finished
               \/ (\E p \in Loaders : LoaderStep(p))
               \/ (\E content \in Contents : UserEdits(content))
      <3>1. UNCHANGED launchVars
        BY <2>1 DEF vars, LoadLimits, LoadKnownHosts, OtherCommand, Finished, LoaderStep, UserEdits
      <3>2. QED
        BY <3>1, PassUnchanged
    <2>2. CASE RestartLaunchWorkspace \/ TakeLimits \/ ExecLimits
      <3>1. UNCHANGED host /\ pc' \in {"config", "preflight", "failed"}
        BY <2>2, OrderIs DEF RestartLaunchWorkspace, TakeLimits, ExecLimits, Goto, Fail
      <3>2. QED
        BY <3>1, PassMoves DEF BuiltSteps, PastExisting
    <2>3. CASE \/ CheckPreflight \/ CheckExisting \/ ResolveEnvironment \/ CheckClient
               \/ EnsureImage
      BY <2>3, ReadingPasses
    <2>4. CASE PrepareToken
      <3>1. /\ pc = "token" /\ UNCHANGED <<host, command>> /\ pc' \in {"spec", "failed"}
        BY <2>4, OrderIs DEF PrepareToken, Goto, Fail
      <3>2. Passes(host, command.runtime, Mode(command))
        BY <3>1 DEF PassInv, PastExisting
      <3>3. QED
        BY <3>1, <3>2, PassMoves DEF BuiltSteps
    <2>5. CASE BuildSpec \/ PassGitAndAgent \/ PassKnownHosts \/ RecordLabels
      BY <2>5, BuildSpecPasses, PassGitPasses, PassKnownHostsPasses, RecordLabelsPasses
    <2>6. CASE StopExisting \/ RunContainer
      BY <2>6, StopExistingPasses, RunContainerPasses
    <2>7. CASE \E c \in Commands : NextCommand(c)
      <3>1. UNCHANGED host /\ pc' = "workspace"
        BY <2>7 DEF NextCommand, Goto, FirstStep
      <3>2. QED
        BY <3>1, PassMoves DEF BuiltSteps, PastExisting
    <2>8. QED
      BY <2>1, <2>2, <2>3, <2>4, <2>5, <2>6, <2>7 DEF Next
  <1>3. QED
    BY <1>1, <1>2, LaunchInvCorrect, PTL DEF Spec

\* A container is started with a consistent view of the host, whatever the
\* host, the configuration and the command.
THEOREM PassthroughIsSoundCorrect == Spec => []PassthroughIsSound
  <1>1. PassInv => PassthroughIsSound
    BY DEF PassInv
  <1>2. QED
    BY <1>1, PassInvCorrect, PTL

=============================================================================
