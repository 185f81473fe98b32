----------------------------- MODULE MCHttpApi -----------------------------
(* Two requests in flight.  The calls: every endpoint, every way to be     *)
(* refused, and for queries ids that are absent, unusable, "-", or sent by *)
(* the other request as well, in the header and in the body.               *)
EXTENDS HttpApi

ClientId == 7

MCClientIds == {Unbound, ClientId}

Plain == [endpoint |-> "live", identity |-> "admin", valid |-> TRUE,
          header |-> Absent, body |-> Absent]

Admin(endpoint) == [Plain EXCEPT !.endpoint = endpoint]

Refused == {[Admin("query") EXCEPT !.identity = "none"],
            [Admin("refresh") EXCEPT !.identity = "user"],
            [Admin("validate") EXCEPT !.valid = FALSE, !.header = ClientId]}

Queries ==
    {[Admin("query") EXCEPT !.header = h] : h \in {Garbage, Unbound, ClientId}}
    \cup {[Admin("query") EXCEPT !.body = b] : b \in {Garbage, ClientId}}
    \cup {[Admin("query") EXCEPT !.header = ClientId, !.body = Garbage]}

MCCalls == {Admin(e) : e \in Endpoints} \cup Refused \cup Queries
=============================================================================
