------------------------------ MODULE HostInfo ------------------------------
(***************************************************************************)
(* Host lookups of v1/ao/internal/host (host.go, sys_linux.go):            *)
(* Distro() called by several goroutines, initDistro's chain of release  *)
(* files, and IPAddresses over FilteredIfaces and IsPhysicalInterface.    *)
(* distroOnce.Do is taken at its documented contract: f runs in the first *)
(* call, and every call returns after f has returned, so a whole Distro   *)
(* call is one step.                                                      *)
(*                                                                         *)
(* A release file is the line utils.GetStrByKeyword finds in it (None if   *)
(* the file is missing or has no such line). A line's text is a model      *)
(* value; what the string operations look at is kept beside it: whether    *)
(* the value is in double quotes, whether it starts with a character of    *)
(* "PRETTY_NAME=", whether it contains "Alpine". A distro name records the *)
(* file it came from and how initDistro formed it.                         *)
(***************************************************************************)
EXTENDS Naturals, SequencesExt

CONSTANTS
    Callers,     \* goroutines calling Distro
    Envs,        \* the release files the host may have
    IfaceLists   \* results of net.Interfaces the host may give

None == [text |-> "none", q |-> FALSE, lead |-> FALSE, alpine |-> FALSE]
\* A distro name: the file it was read from and the way it was formed.
Name(src, text, form) == [src |-> src, text |-> text, form |-> form]
NoName == Name("", "", "")       \* the zero value of the distro variable
NotCalled == Name("-", "", "")   \* what a caller holds before its first call

VARIABLES
    env,        \* the release files
    nics,       \* what net.Interfaces returns on this host
    done,       \* distroOnce has run its function
    distro,     \* the package variable distro
    ret         \* per caller: what its last Distro call returned

vars == <<env, nics, done, distro, ret>>

\* The files GetStrByKeywordFiles tries after os-release, in its order.
Fallbacks == <<"debian", "suseOld", "slackware", "gentoo", "issue">>

\* Mutant: lsb-release is tried before the redhat-based files.
initDistroUbuntuFirst(e) ==
    LET fb == {i \in DOMAIN Fallbacks : e[Fallbacks[i]] # None}
        p == Fallbacks[CHOOSE i \in fb : \A j \in fb : i <= j]
    IN  CASE e.ubuntu # None ->
                Name("ubuntu", IF e.ubuntu.text = "" THEN "Ubuntu unknown" ELSE e.ubuntu.text, "line")
          [] e.redhat # None -> Name("redhat", e.redhat.text, "line")
          [] e.amazon # None -> Name("amazon", e.amazon.text, "line")
          [] e.suse # None -> Name("suse", e.suse.text, "line")
          [] fb = {} -> Name("none", "Unknown", "line")
          [] OTHER -> Name(p, e[p].text, "line")

\* initDistro: redhat-release, system-release, lsb-release's
\* DISTRIB_DESCRIPTION (its value after the last "=", unquoted, or "Ubuntu
\* unknown" when empty), os-release's PRETTY_NAME (strings.TrimLeft with
\* the cutset "PRETTY_NAME=", then unquoted: an unquoted value starting
\* with a cutset character loses it), then the first of the fallbacks with
\* a line ("Debian " put before debian_version's, and a name containing
\* "Alpine" cut to start there), else "Unknown".
initDistro(e) ==
    LET fb == {i \in DOMAIN Fallbacks : e[Fallbacks[i]] # None}
        p == Fallbacks[CHOOSE i \in fb : \A j \in fb : i <= j]
    IN  CASE e.redhat # None -> Name("redhat", e.redhat.text, "line")
          [] e.amazon # None -> Name("amazon", e.amazon.text, "line")
          [] e.ubuntu # None ->
                IF e.ubuntu.text = "" THEN Name("ubuntu", "Ubuntu unknown", "line")
                ELSE Name("ubuntu", e.ubuntu.text, "line")
          [] e.suse # None ->
                Name("suse", e.suse.text,
                     IF ~e.suse.q /\ e.suse.lead THEN "cut-by-cutset" ELSE "line")
          [] fb = {} -> Name("none", "Unknown", "line")
          [] OTHER -> Name(p, e[p].text,
                           CASE e[p].alpine -> "from-Alpine"
                             [] p = "debian" -> "Debian-prefixed"
                             [] OTHER -> "line")

\* IsPhysicalInterface: the /sys/class/net link does not go through
\* /virtual/; an interface whose link cannot be read counts as physical.
IsPhysicalInterface(i) == i.link # "virtual"

\* Mutant: point-to-point interfaces are not skipped.
FilteredIfacesKeepP2P(l) ==
    IF l.err THEN <<>>
    ELSE SelectSeq(l.ifaces, LAMBDA i : /\ "loopback" \notin i.flags
                                        /\ IsPhysicalInterface(i)
                                        /\ ~i.addrsErr /\ i.addrs # <<>>)

\* FilteredIfaces: net.Interfaces, less loopback, point-to-point and
\* virtual interfaces and those whose Addrs fails or is empty.
FilteredIfaces(l) ==
    IF l.err THEN <<>>
    ELSE SelectSeq(l.ifaces, LAMBDA i : /\ "loopback" \notin i.flags
                                        /\ "pointtopoint" \notin i.flags
                                        /\ IsPhysicalInterface(i)
                                        /\ ~i.addrsErr /\ i.addrs # <<>>)

\* IPAddresses: the IPs of the filtered interfaces' addresses that are
\* *net.IPNet and not loopback, in interface and address order.
RECURSIVE Collect(_)
Collect(ifs) ==
    IF ifs = <<>> THEN <<>>
    ELSE LET as == SelectSeq(Head(ifs).addrs, LAMBDA a : a.ipnet /\ ~a.loopback)
         IN  [k \in 1..Len(as) |-> as[k].ip] \o Collect(Tail(ifs))
IPAddresses(l) == Collect(FilteredIfaces(l))

Init ==
    /\ env \in Envs
    /\ nics \in IfaceLists
    /\ done = FALSE
    /\ distro = NoName
    /\ ret = [g \in Callers |-> NotCalled]

\* Mutant: the closure declares its own distro (distro := initDistro()),
\* so the package variable keeps its zero value.
DistroShadowed(g) ==
    /\ done' = TRUE
    /\ ret' = [ret EXCEPT ![g] = distro]
    /\ UNCHANGED <<env, nics, distro>>

\* Distro: distroOnce.Do runs distro = initDistro() in the first call only;
\* every call returns distro.
Distro(g) ==
    /\ distro' = IF done THEN distro ELSE initDistro(env)
    /\ done' = TRUE
    /\ ret' = [ret EXCEPT ![g] = distro']
    /\ UNCHANGED <<env, nics>>

Next == \E g \in Callers : Distro(g)

Spec == Init /\ [][Next]_vars

-----------------------------------------------------------------------------
\* A name Distro returns comes from one of the release files, or from none.
Names == [src: {"redhat", "amazon", "ubuntu", "suse", "none"} \cup {Fallbacks[i] : i \in DOMAIN Fallbacks},
          text: STRING, form: {"line", "cut-by-cutset", "from-Alpine", "Debian-prefixed"}]
TypeOK ==
    /\ env \in Envs /\ nics \in IfaceLists
    /\ done \in BOOLEAN
    /\ distro \in Names \cup {NoName}
    /\ ret \in [Callers -> Names \cup {NotCalled}]

\* The order the comments of initDistro give: redhat based, then ubuntu,
\* then the others, debian first; and the name each file gives.
Order == <<"redhat", "amazon", "ubuntu", "suse">> \o Fallbacks
RefSource(e) ==
    LET I == {i \in DOMAIN Order : e[Order[i]] # None}
    IN  IF I = {} THEN "none" ELSE Order[CHOOSE i \in I : \A j \in I : i <= j]
RefText(e) ==
    LET s == RefSource(e)
    IN  CASE s = "none" -> "Unknown"
          [] s = "ubuntu" /\ e.ubuntu.text = "" -> "Ubuntu unknown"
          [] OTHER -> e[s].text

\* Every Distro call, first or later, of any caller, returns the name read
\* from the first release file present in the documented order.
ReturnsDocumentedDistro ==
    \A g \in Callers :
        ret[g] # NotCalled => ret[g].src = RefSource(env) /\ ret[g].text = RefText(env)

\* What IPAddresses returns is the set of the unicast addresses, other than
\* loopback ones, of the host's interfaces that are up to the filter of
\* AO-9021: not loopback, not point-to-point, not virtual, with addresses
\* (IPAddresses, FilteredIfaces, IsPhysicalInterface).
Kept(i) ==
    /\ i.flags \cap {"loopback", "pointtopoint"} = {}
    /\ i.link # "virtual"
    /\ ~i.addrsErr
RefAddrs(l) ==
    IF l.err THEN {}
    ELSE UNION {{a.ip : a \in {b \in ToSet(i.addrs) : b.ipnet /\ ~b.loopback}} :
                i \in {i \in ToSet(l.ifaces) : Kept(i)}}
IPAddressesAsDocumented == ToSet(IPAddresses(nics)) = RefAddrs(nics)
=============================================================================
