---------------------------- MODULE MCShortLink -----------------------------
(***************************************************************************)
(* Instances of ShortLink for TLC.                                         *)
(***************************************************************************)
EXTENDS ShortLink

\* Replies of a SOCKS5 proxy by address type; 5 is not one.
Replies == (1 :> times(0, 6)) @@ (3 :> <<2>> \o times(0, 4)) @@ (4 :> times(0, 18)) @@ (5 :> <<0>>)

session(uin, f9, device, host) ==
    [sendKey |-> 1, recvKey |-> 2, uin |-> uin, ticket |-> 100, f9 |-> f9, device |-> device, hostAppID |-> host]
ans(text, blockForm, head, packet, transcript, seq) ==
    [text |-> text, block |-> blockForm, head |-> head, packet |-> packet,
     transcript |-> transcript, seq |-> seq]

head1 == sessionWpkgHead(1, <<>>, <<>>)
\* A head that does not end where it says.
oddHead == <<1, 5, 255>> \o times(255, 12)

base == [kind |-> "send", proxy |-> "none", op |-> "getCode", app |-> <<65, 66>>, payload |-> <<>>,
         session |-> session(5, <<>>, <<>>, <<>>),
         answer |-> ans("code", "literal", head1, TRUE, <<"ch", "sh">>, 2)]

\* The longest record of the instance holds the envelope of this call exactly.
longest == [base EXCEPT !.op = "operate", !.payload = times(123, 290),
                        !.session = session(1234567, times(4, 130), <<9>>, <<8>>),
                        !.answer = ans("code", "match", head1, FALSE, <<"ch", "sh", "type8">>, 3)]

\* The ways of a connection with one request, and requests and answers of all
\* forms over a direct connection; a request a byte too long, and a uin too wide.
Cases ==
    {[base EXCEPT !.kind = k, !.proxy = p] : k \in {"send", "login"}, p \in {"none", "socks5", "http-connect", "invalid"}}
    \cup {[base EXCEPT !.op = "getPhone", !.session = session(300, <<1, 2, 3>>, <<9>>, <<8>>),
                       !.answer = ans("code", "match", head1, TRUE, <<"ch", "type8", "sh">>, 1)],
          longest, [longest EXCEPT !.payload = times(123, 291)],
          [base EXCEPT !.session = session(16777221, <<>>, <<>>, <<>>)],
          [base EXCEPT !.session = session(200, <<1>>, <<>>, <<8, 8>>),
                       !.answer = ans("code", "literal", oddHead, TRUE, <<"ch", "sh">>, 1)],
          [base EXCEPT !.answer.text = "error"],
          [base EXCEPT !.answer.text = "empty"]}
Calls == {exchange(c) : c \in Cases}
==============================================================================
