------------------------------- MODULE MCLogin -------------------------------
(***************************************************************************)
(* Instances of Login for TLC.                                             *)
(***************************************************************************)
EXTENDS Login

t(ip, port) == [ip |-> ip, port |-> port]

\* Three hosts, the first with two ports, and an answer without the domains.
TwoAnswers == {[long |-> <<t(2, 80), t(1, 443), t(1, 8080), t(3, 80)>>, short |-> <<t(1, 443), t(1, 80)>>],
               [long |-> <<>>, short |-> <<>>]}

ticket(type, alive) == [type |-> type, alive |-> alive]
certVerify == msg("CertVerify", Nil)
tickets(ts) == msg("NewSessionTicket", ts)

\* The order of the flight, its tickets, and a flight without a certificate.
Flights == {<<certVerify, tickets(<<ticket(2, TRUE), ticket(1, TRUE)>>)>>,
            <<tickets(<<ticket(1, TRUE)>>), certVerify>>,
            <<certVerify, tickets(<<ticket(1, FALSE), ticket(2, TRUE)>>)>>,
            <<msg("EncryptedExtensions", Nil), tickets(<<ticket(1, TRUE)>>)>>}
=============================================================================
