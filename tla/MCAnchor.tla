------------------------------- MODULE MCAnchor ------------------------------
(***************************************************************************)
(* Attributes that give an address or none: quoted, with white space, too  *)
(* long by one symbol, with a name inside a value, with a name of an event *)
(* handler, without value, without name.  The last two are the ones the    *)
(* scan does not get past.                                                 *)
(***************************************************************************)
EXTENDS Anchor

Attr(t, h) == [text |-> t, href |-> h]
Web == <<"http:", "/", "/", "host">>

MCReadable == {
    Attr(<<"sp", "href", "=", "q">> \o Web \o <<"q">>, Web),
    Attr(<<"sp", "href", "=", "q">> \o Web \o <<"host", "q">>, Web \o <<"host">>),
    Attr(<<"sp", "href", "sp", "=", "sp", "#", "host">>, <<"#", "host">>),
    Attr(<<"sp", "href", "=", "q", "host", "q">>, <<>>),
    Attr(<<"sp", "title", "=", "q", "sp", "href", "=", "#", "q">>, <<>>),
    Attr(<<"sp", "on", "href", "=", "q">> \o Web \o <<"q">>, <<>>),
    Attr(<<"sp", "title">>, <<>>),
    Attr(<<"sp", "=", "host">>, <<>>)}

\* These can be read in one way.
ASSUME \A a \in MCReadable : Readable(a)

MCAttributes == MCReadable \cup {
    Attr(<<"sp", "href", "=">> \o Web, <<>>),
    Attr(<<"sp", "q", "host", "q">>, <<>>)}
==============================================================================
