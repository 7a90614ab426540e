------------------------------ MODULE MCArchive -----------------------------
(* A small instance of Archive for TLC.                                    *)
EXTENDS Archive

\* A form over HTTP/1.1 whose body, target and a header are not UTF-8.
Form ==
  [hello |-> "h1", h2 |-> [headerOrder |-> <<>>],
   req |-> [method |-> "POST", url |-> <<"%", "bad">>, proto |-> "HTTP/1.1",
            headers |-> <<Header("cookie", <<"a">>), Header("x", <<"bad">>),
                          Header("cookie", <<"b">>)>>,
            body |-> <<"a", "bad">>],
   resp |-> [status |-> 200, proto |-> "HTTP/1.1",
             headers |-> <<Header("content-type", <<"a">>)>>, body |-> <<"a">>]]

\* A page over HTTP/2 that the mirror fetched over HTTP/3.
Page ==
  [hello |-> "h2", h2 |-> [headerOrder |-> <<<<"b">>, <<"a">>>>],
   req |-> [method |-> "GET", url |-> <<"A", "\\">>, proto |-> "HTTP/2.0",
            headers |-> <<Header("x", <<"b">>), Header("x", <<"a">>)>>,
            body |-> <<>>],
   resp |-> [status |-> 404, proto |-> "HTTP/3.0",
             headers |-> <<Header("set-cookie", <<"b">>),
                           Header("set-cookie", <<"a">>)>>, body |-> <<"bad">>]]

MCTransactions == {Form, Page}

\* Every kind of character, before and after a wildcard.
MCGlobs == {<<"%", "*">>, <<"_", "*">>, <<"*", "bad">>, <<"a", "\\">>}
=============================================================================
