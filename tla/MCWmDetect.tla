----------------------------- MODULE MCWmDetect -----------------------------
(***************************************************************************)
(* Managers of every kind: with and without a pid, a host, or a name that  *)
(* is theirs; on our display, on another, or on another machine.           *)
(***************************************************************************)
EXTENDS WmDetect

Kind(comm, texts, command, host, pid, here, remote) ==
    [comm |-> comm, texts |-> texts, command |-> command, host |-> host,
     pid |-> pid, check |-> CASE comm = "wmaker" -> "maker"
                              [] comm = "mwm" -> "motif"
                              [] OTHER -> "none",
     here |-> here, remote |-> remote,
     hostname |-> IF comm = "ctwm" THEN "short" ELSE "none"]

Called(word, comm) == << << >>, <<word, "1.0">>, <<comm>>, << >> >>

\* Openbox, with what it may say of itself, on this host or another; and
\* xmonad, which libxde has no plugin for.
Modern ==
    {Kind("openbox", Called(word, "openbox"), "none", host, pid, TRUE, FALSE) :
        word \in {"openbox", "lg3d"}, host \in {"none", "same", "short"},
        pid \in {"none", "net", "own"}} \cup
    {Kind("openbox", Called("openbox", "openbox"), "none", host, pid, TRUE, TRUE) :
        host \in {"none", "near", "other"}, pid \in {"none", "net"}} \cup
    {Kind("xmonad", Called(word, "xmonad"), "none", host, pid, TRUE, FALSE) :
        word \in {"xmonad", "lg3d"}, host \in {"none", "long"},
        pid \in {"none", "net"}}

\* The others say less.
Plain ==
    {Kind(comm, Untitled, command, "none", "none", TRUE, FALSE) :
        comm \in {"wmaker", "mwm", "openbox"},
        command \in {"none", "bare", "path"}} \cup
    {Kind("ctwm", Called("workspacemanager", "ctwm"), command, "none", "none",
          here, FALSE) :
        command \in {"none", "path"}, here \in BOOLEAN}

MCPrograms == Modern \cup Plain

\* What starts while a check runs.
MCLater ==
    {Kind("openbox", Called("openbox", "openbox"), "none", "same", "net",
          TRUE, FALSE),
     Kind("openbox", Called("lg3d", "openbox"), "none", "none", "none",
          TRUE, FALSE),
     Kind("openbox", Called("openbox", "openbox"), "none", "other", "none",
          TRUE, TRUE),
     Kind("mwm", Untitled, "none", "none", "none", TRUE, FALSE)}

\* A manager that is set to be called LG3D, and nothing else ever.
MCMimic ==
    {Kind("spectrwm", Called("lg3d", "spectrwm"), "none", "none", "none", TRUE,
          FALSE)}
MCNone == {}
=============================================================================
