---------------------------- MODULE InboundStore ----------------------------
(***************************************************************************)
(* The two tables that hold a proxy client, as operators without state.    *)
(*                                                                         *)
(* A client lives twice in the database: as an element of the JSON array   *)
(* inbounds.settings.clients (here a sequence of client records) and as a  *)
(* row of client_traffics (here a function from e-mails to rows).  The     *)
(* panel, the Telegram bot, the shop and the cron jobs all go through the  *)
(* functions of web/service/inbound.go translated below: each reads the    *)
(* whole settings array, edits its own copy and writes the array back.     *)
(***************************************************************************)
EXTENDS Integers, Sequences, FiniteSets

\* Largest of two integers; the clamps of the shop are written with it.
MaxOf(a, b) == IF a >= b THEN a ELSE b

\* The e-mails present in a settings array (getAllEmails).
AllEmails(settings) == {settings[i].email : i \in DOMAIN settings}

\* Positions of an e-mail and of a client id in the array.
PositionsOf(settings, email) == {i \in DOMAIN settings : settings[i].email = email}

IndexOfId(settings, id) == {i \in DOMAIN settings : settings[i].id = id}

FirstOf(S) == CHOOSE i \in S : \A j \in S : i <= j

\* GetClientByEmail finds a client only if its traffic row exists (the row
\* leads to the inbound) and the array of that inbound has the e-mail.
ClientKnown(settings, rows, email) ==
    /\ email \in DOMAIN rows
    /\ PositionsOf(settings, email) # {}

ClientByEmail(settings, email) == settings[FirstOf(PositionsOf(settings, email))]

\* UpdateInboundClient on the caller's copy of the array.
WithClient(settings, client) ==
    [settings EXCEPT ![FirstOf(IndexOfId(settings, client.id))] = client]

\* DelInboundClient: every element with the id goes, the others keep their order.
WithoutClient(settings, id) ==
    LET Kept[i \in 0 .. Len(settings)] ==
          IF i = 0 THEN << >>
          ELSE IF settings[i].id = id THEN Kept[i - 1] ELSE Append(Kept[i - 1], settings[i])
    IN  Kept[Len(settings)]

\* AddClientStat: client_traffics.email is UNIQUE and the error of Create is
\* ignored by the callers, so an existing row stays as it is.
AddClientStat(rows, client) ==
    [e \in DOMAIN rows \cup {client.email} |->
        IF e \in DOMAIN rows
        THEN rows[e]
        ELSE [total |-> client.total, expiry |-> client.expiry,
              enable |-> client.enable, used |-> 0]]

\* UpdateClientStat: a conditional UPDATE by e-mail; no row, no effect.
UpdateClientStat(rows, client) ==
    [e \in DOMAIN rows |->
        IF e = client.email
        THEN [rows[e] EXCEPT !.total = client.total, !.expiry = client.expiry,
                             !.enable = client.enable]
        ELSE rows[e]]

\* DelClientStat.
DelClientStat(rows, email) == [e \in DOMAIN rows \ {email} |-> rows[e]]

\* The WHERE clause of disableInvalidClients: out of quota (total 0 means
\* unlimited) or past the expiry (expiry 0 means never).
Depleted(row, now) ==
    \/ row.total > 0 /\ row.used >= row.total
    \/ row.expiry > 0 /\ row.expiry <= now
=============================================================================
