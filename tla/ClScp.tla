------------------------------- MODULE ClScp --------------------------------
(***************************************************************************)
(* The component loader cl_scp (comploader/cl_scp.c), which fetches a file *)
(* from a server: it takes its URI apart, opens an SFTP session, the local *)
(* and the remote file, and copies block by block.  A text is a sequence   *)
(* of characters, "%40" being one of them; files are counted in units.     *)
(* libssh and the server are external.                                     *)
(***************************************************************************)
EXTENDS Integers, Sequences, FiniteSetsExt

CONSTANTS
  Callers,    \* "comp_load", or "shell": a user who gives the arguments in the order of main()
  Meanings,   \* what URIs refer to: [user, pw, host, port, path], texts or Null
  BlockSize,  \* len
  MaxRemote   \* bound: length of the remote file

Null == <<"NULL">>
NoParts == [user |-> Null, pw |-> Null, host |-> Null, port |-> Null, path |-> Null]

VARIABLES
  argv,      \* the two arguments: whether they begin with "scp://", and the rest
  srv_conn,  \* the parts that decode_parameters() found, or NoParts
  pc, status,
  remote,    \* units of the remote file
  local,     \* units in the local file, or -1: there is none
  acc,       \* units received
  fault      \* history: the server or the local file system has failed

scpVars == <<argv, srv_conn, pc, status, remote, local, acc, fault>>

-----------------------------------------------------------------------------
(* URIs *)

\* "if the account name contains the @ character ... it has to be replaced by %40"
Escaped(text) == [i \in DOMAIN text |-> IF text[i] = "@" THEN "%40" ELSE text[i]]

Given(text, before, after) == IF text = Null THEN <<>> ELSE before \o text \o after

\* [UID[:PW]@]host[:PORT]/<path to file>
Compose(m) ==
  (IF m.user = Null THEN <<>> ELSE Escaped(m.user) \o Given(m.pw, <<":">>, <<>>) \o <<"@">>)
  \o m.host \o Given(m.port, <<":">>, <<>>) \o <<"/">> \o m.path

\* The place of the first c, or 0
Strchr(s, c) == LET at == {i \in DOMAIN s : s[i] = c} IN IF at = {} THEN 0 ELSE Min(at)
Before(s, n) == IF n = 0 THEN s ELSE SubSeq(s, 1, n - 1)
After(s, n) == SubSeq(s, n + 1, Len(s))

\* Behind the first "@", the whole URI if there is none
AfterLogin(s) == After(s, Strchr(s, "@"))

OwnName == <<"getpwuid">>
Localhost == <<"localhost">>
SshPort == <<"22">>

DecodeParameters(arg) ==
  LET s == arg.text
      hasLogin == Strchr(s, "@") # 0
      login == Before(s, Strchr(s, "@"))
      rest == AfterLogin(s)
      slash == Strchr(rest, "/")
      server == Before(rest, slash)
  IN IF ~arg.scp \/ slash = 0 THEN NoParts
     ELSE [user |-> IF hasLogin THEN Before(login, Strchr(login, ":")) ELSE OwnName,
           pw |-> IF hasLogin /\ Strchr(login, ":") # 0 THEN After(login, Strchr(login, ":"))
                  ELSE Null,
           host |-> IF slash = 1 THEN Localhost ELSE Before(server, Strchr(server, ":")),
           port |-> IF Strchr(server, ":") = 0 THEN SshPort
                    ELSE After(server, Strchr(server, ":")),
           path |-> After(rest, slash)]

-----------------------------------------------------------------------------
Dest == [scp |-> FALSE, text |-> <<"/", "a">>]

\* execl(module, module, dest, uri, NULL) in comp_load()
Arguments(caller, uri) == IF caller = "comp_load" THEN <<Dest, uri>> ELSE <<uri, Dest>>

ScpInit ==
  /\ \E caller \in Callers, m \in Meanings :
       argv = Arguments(caller, [scp |-> TRUE, text |-> Compose(m)])
  /\ srv_conn = NoParts /\ pc = "decode" /\ status = -1
  /\ remote \in 0..MaxRemote /\ local = -1 /\ acc = 0 /\ fault = FALSE

Return(code) == pc' = "done" /\ status' = code

Fails(code) == Return(code) /\ fault' = TRUE

Decode ==
  /\ pc = "decode"
  /\ srv_conn' = DecodeParameters(argv[1])
  /\ IF srv_conn' = NoParts THEN Return(1) ELSE pc' = "connect" /\ UNCHANGED status
  /\ UNCHANGED <<argv, remote, local, acc, fault>>

\* The server accepts the public key, or else a password if one was given.
ConnectSsh ==
  /\ pc = "connect"
  /\ \/ pc' = "local" /\ UNCHANGED <<status, fault>>
     \/ Fails(2)
  /\ UNCHANGED <<argv, srv_conn, remote, local, acc>>

\* O_TRUNC
OpenLocal ==
  /\ pc = "local"
  /\ \/ local' = 0 /\ pc' = "remote" /\ UNCHANGED <<status, fault>>
     \/ Fails(3) /\ UNCHANGED local
  /\ UNCHANGED <<argv, srv_conn, remote, acc>>

OpenRemote ==
  /\ pc = "remote"
  /\ \/ pc' = "copy" /\ UNCHANGED <<status, fault>>
     \/ Fails(4)
  /\ UNCHANGED <<argv, srv_conn, remote, local, acc>>

\* A block, or -1.  write() is called after an error only, with a length of -1, and
\* writes nothing; a block that is not full is the last one.
SftpRead(rcvd) ==
  /\ pc = "copy"
  /\ rcvd <= remote - acc /\ (rcvd = 0 => acc = remote)
  /\ acc' = acc + rcvd
  /\ fault' = (rcvd = -1)
  /\ IF rcvd = BlockSize THEN UNCHANGED <<pc, status>> ELSE Return(0)
  /\ UNCHANGED <<argv, srv_conn, remote, local>>

ScpNext ==
  \/ Decode \/ ConnectSsh \/ OpenLocal \/ OpenRemote
  \/ \E rcvd \in -1..BlockSize : SftpRead(rcvd)

ScpSpec == ScpInit /\ [][ScpNext]_scpVars

-----------------------------------------------------------------------------
(* Properties *)

\* If neither the server nor the local file system fails, the file behind a URI of the
\* documented form is copied and the status is 0 (main of cl_scp.c, comp_load).
FetchesTheFile == pc = "done" /\ ~fault => status = 0 /\ local = remote
=============================================================================
