---------------------------- MODULE MC_HostInfo ----------------------------
(* Two goroutines calling Distro; every combination of release files, one *)
(* or two lines for each; the interfaces of a host with a physical NIC,   *)
(* loopback, a VPN tunnel, a docker bridge and NICs whose link or         *)
(* addresses cannot be read.                                              *)
EXTENDS HostInfo

CONSTANTS g1, g2

MCCallers == {g1, g2}

L(t) == [text |-> t, q |-> FALSE, lead |-> FALSE, alpine |-> FALSE]

\* redhat-release, system-release, DISTRIB_DESCRIPTION with and without a
\* value, PRETTY_NAME quoted and unquoted starting with a cutset letter,
\* debian_version, SuSE-release, slackware-version, gentoo-release, and
\* /etc/issue of Alpine and of another system.
MCEnvs ==
    [redhat: {None, L("rh")}, amazon: {None, L("amzn")},
     ubuntu: {None, L("Ubuntu 22.04"), L("")},
     suse: {None, [L("SLES 15") EXCEPT !.q = TRUE], [L("ALT Linux") EXCEPT !.lead = TRUE]},
     debian: {None, L("11.7")}, suseOld: {None, L("SUSE 11")},
     slackware: {None, L("Slackware 15")}, gentoo: {None, L("Gentoo")},
     issue: {None, [L("Welcome to Alpine Linux") EXCEPT !.alpine = TRUE], L("Kernel \\r")}]

A(ip, ipnet, lo) == [ip |-> ip, ipnet |-> ipnet, loopback |-> lo]
I(fl, link, err, as) == [flags |-> fl, link |-> link, addrsErr |-> err, addrs |-> as]
Ifaces == <<I({}, "pci", FALSE, <<A("10.0.0.5", TRUE, FALSE), A("::1", TRUE, TRUE)>>),
           I({"loopback"}, "virtual", FALSE, <<A("127.0.0.1", TRUE, TRUE)>>),
           I({"pointtopoint"}, "err", FALSE, <<A("10.8.0.1", TRUE, FALSE)>>),
           I({}, "virtual", FALSE, <<A("172.17.0.1", TRUE, FALSE)>>),
           I({}, "err", FALSE, <<A("10.0.1.5", TRUE, FALSE), A("fe80::1", FALSE, FALSE)>>),
           I({}, "pci", TRUE, <<>>),
           I({}, "pci", FALSE, <<>>)>>
\* net.Interfaces failing, returning nothing, and returning all of these.
MCIfaceLists ==
    {[err |-> TRUE, ifaces |-> <<>>], [err |-> FALSE, ifaces |-> <<>>],
     [err |-> FALSE, ifaces |-> Ifaces]}
=============================================================================
