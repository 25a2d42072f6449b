------------------------------ MODULE Network -------------------------------
(***************************************************************************)
(* Enabling the network (nb_conf_enable() of core/netbase.c) with the      *)
(* requests for a DHCP lease (dhcpcd() of core/dhcp_request.c).  A value   *)
(* is Missing, Given (by the statement) or the number of the request that  *)
(* got it from the server; dhcpcd, ifconfig and route are external.        *)
(***************************************************************************)
EXTENDS Integers, Sequences

CONSTANTS
  MaxRetries,   \* DHCP_MAX_RETRIES
  FirstTimeout, \* seconds the first request waits
  NetConfs      \* what statements say: [mode, address, nameserver]

ASSUME DhcpAssumption == MaxRetries \in Nat /\ FirstTimeout \in Nat

PowerOfTwo(n) == 2 ^ n

\* Facts of arithmetic about the number of retries, on which the bound of the waiting rests
ASSUME PowerAssumption ==
  /\ PowerOfTwo(0) = 1
  /\ \A n \in 0..MaxRetries :
       /\ PowerOfTwo(n) \in Nat
       /\ PowerOfTwo(n + 1) = 2 * PowerOfTwo(n)
       /\ PowerOfTwo(n + 1) <= PowerOfTwo(MaxRetries + 1)

VARIABLES
  netconf,    \* the parameters of the statement, completed by a lease
  netpc,      \* "off", "dhcp", "info", "resolv", "check"; "dead": the program has crashed
  timeout, retries,
  info,       \* dhcpcd-<interface>.info: the request that wrote it, or Missing
  resolv,     \* the name servers in /etc/resolv.conf
  interface,  \* the address the interface has
  waited,     \* history: seconds spent on requests of this statement
  requests, before  \* history: requests made so far, and before this statement

netVars == <<netconf, netpc, timeout, retries, info, resolv, interface, waited, requests,
             before>>

Missing == 0
Given == -1
Blank == [mode |-> "static", address |-> Missing, nameserver |-> Missing]

ASSUME NetConfAssumption ==
  NetConfs \subseteq [mode : {"dhcp", "static"}, address : {Missing, Given},
                      nameserver : {Missing, Given}]

NetworkInit ==
  /\ netconf = Blank /\ netpc = "off" /\ timeout = FirstTimeout /\ retries = 0
  /\ info = Missing /\ resolv = <<>> /\ interface = Missing
  /\ waited = 0 /\ requests = 0 /\ before = 0

\* The parameters have been read: nb_conf_enable() begins
NbConfEnable(conf) ==
  /\ netpc = "off"
  /\ netconf' = conf
  /\ timeout' = FirstTimeout /\ retries' = 0 /\ waited' = 0 /\ before' = requests
  /\ netpc' = IF conf.mode = "dhcp" THEN "dhcp" ELSE "resolv"
  /\ UNCHANGED <<info, resolv, interface, requests>>

\* Mutant: one request more.
MayRetryOnceMore(n) == n <= MaxRetries + 1

MayRetry(n) == n <= MaxRetries

NoLease ==
  /\ retries' = retries + 1 /\ timeout' = timeout * 2
  /\ netpc' = IF MayRetry(retries') THEN "dhcp" ELSE "resolv"

\* dhcpcd ends with success, with or without a lease in its info file
DhcpcdEnds(wrote) ==
  /\ netpc = "dhcp"
  /\ requests' = requests + 1
  /\ info' = IF wrote THEN requests' ELSE info
  /\ waited' \in {waited, waited + timeout}
  /\ netpc' = "info"
  /\ UNCHANGED <<netconf, timeout, retries, resolv, interface, before>>

\* dhcpcd gives up after the timeout
DhcpcdFails ==
  /\ netpc = "dhcp"
  /\ requests' = requests + 1 /\ waited' = waited + timeout
  /\ NoLease
  /\ UNCHANGED <<netconf, info, resolv, interface, before>>

NoInfo ==
  /\ netpc = "info" /\ info = Missing
  /\ NoLease
  /\ UNCHANGED <<netconf, info, resolv, interface, waited, requests, before>>

\* Mutant: the file is left for the next request.
AfterReadingKept == info

\* unlink()
AfterReading == Missing

\* A complete lease replaces what the statement said.
ReadInfo ==
  /\ netpc = "info" /\ info # Missing
  /\ info' = AfterReading
  /\ retries' = retries + 1
  /\ netconf' = [mode |-> netconf.mode, address |-> info, nameserver |-> info]
  /\ netpc' = "resolv"
  /\ UNCHANGED <<timeout, resolv, interface, waited, requests, before>>

\* A lease without a name server, gateway, mask or domain: cfg_strcpy() of a null pointer
IncompleteLease ==
  /\ netpc = "info" /\ info # Missing
  /\ info' = AfterReading
  /\ netpc' = "dead"
  /\ UNCHANGED <<netconf, timeout, retries, resolv, interface, waited, requests, before>>

\* A name server is appended, whatever becomes of the interface.
Resolvconf ==
  /\ netpc = "resolv"
  /\ resolv' = IF netconf.nameserver # Missing THEN Append(resolv, netconf.nameserver) ELSE resolv
  /\ netpc' = "check"
  /\ UNCHANGED <<netconf, timeout, retries, info, interface, waited, requests, before>>

\* Without an address the interface is left alone; nb_conf_reset() by the grammar
Ifconfig ==
  /\ netpc = "check"
  /\ interface' = IF netconf.address # Missing THEN netconf.address ELSE interface
  /\ netconf' = Blank
  /\ netpc' = "off"
  /\ UNCHANGED <<timeout, retries, info, resolv, waited, requests, before>>

NetStep ==
  \/ \E wrote \in BOOLEAN : DhcpcdEnds(wrote)
  \/ DhcpcdFails \/ NoInfo \/ ReadInfo \/ IncompleteLease \/ Resolvconf
-----------------------------------------------------------------------------
(* Properties *)

\* An address or name server taken from a lease is one of a request this very statement
\* made: no lease of an earlier statement or interface is used in its place, although
\* the leases pass through a file whose name does not change (nb_conf_enable, dhcpcd).
LeaseIsOfThisStatement ==
  netconf.address > 0 => /\ before < netconf.address /\ netconf.address <= requests
                         /\ netconf.nameserver = netconf.address

\* Requests that double their timeout keep the start-up waiting no longer than the sum
\* of MAX_RETRIES + 1 timeouts, per statement (nb_conf_enable).
WaitIsBounded == waited <= FirstTimeout * (PowerOfTwo(MaxRetries + 1) - 1)
=============================================================================
