------------------------------- MODULE Pages -------------------------------
(***************************************************************************)
(* The registered pages and their AI personas: the rows of facebook.pages  *)
(* and facebook.ai_personas, the encryption of the token, and the requests *)
(* of several users on them (handlers/pages.go, handlers/ai_personas.go,   *)
(* service/pages.go, repo/pages.go, secure/encrypt.go).                    *)
(*                                                                         *)
(* Every database statement is a step of its own.  ContentQueue composes   *)
(* this module with the content queue, which has the specification.        *)
(***************************************************************************)
EXTENDS Integers, Sequences, FiniteSets, SequencesExt

CONSTANTS
  Rows,      \* ids of rows of facebook.pages, never used twice
  FbPages,   \* Facebook's ids of pages
  Tokens,    \* page access tokens
  Base64,    \* those of them that are valid base64
  Keys,      \* encryption keys
  Personas,  \* ids of rows of facebook.ai_personas
  Texts,     \* what the persona columns of a page can hold
  Clients,   \* who sends requests, one at a time
  None,      \* no row, no key, no persona
  Gone,      \* a row that has been deleted
  MaxOps,    \* bound: requests about pages
  MaxRekeys, \* bound: starts of the server with another key
  MaxFaults  \* bound: failed calls, and requests that are given up

PageRow == [fb : FbPages, token : Seq(Tokens \cup Keys), active : BOOLEAN, posting : BOOLEAN,
            ai : BOOLEAN, persona : Personas \cup {None}, texts : Texts]

ASSUME PagesAssumption ==
  /\ Base64 \subseteq Tokens
  /\ None \notin Keys \cup Personas \cup Rows
  /\ None # Gone /\ None \notin PageRow /\ Gone \notin PageRow
  /\ {MaxOps, MaxRekeys, MaxFaults} \subseteq Nat

VARIABLES
  page,      \* the row of each id
  personas,  \* the rows of facebook.ai_personas
  key,       \* ENCRYPTION_KEY of the running server
  listed,    \* what each client's page list shows
  req,       \* the request of each client: how far it is, the row it has
             \* found, what it changes, and the page it has read
  ops, rekeys, faults,  \* counters of the bounded events
  asked,     \* history: what was last asked for, per row and field
  behind,    \* history: the fields changed since a client's list was read
  behindReq, \* history: the fields changed since its request read the page
  undone,    \* history: fields overwritten by an older copy of the row
  doubtful   \* history: rows whose token the key of the day may not open

tables == <<page, personas, key>>
requests == <<listed, req>>
bounds == <<ops, rekeys, faults>>
hist == <<asked, behind, behindReq, undone, doubtful>>
pvars == <<tables, requests, bounds, hist>>

Switches == {"active", "posting", "ai"}
Fields == Switches \cup {"token", "persona", "texts"}

Idle == [at |-> "idle", row |-> None, field |-> "none", value |-> None, copy |-> None]

PagesInit ==
  /\ page = [p \in Rows |-> None]
  /\ personas = {}
  /\ key = None
  /\ listed = [c \in Clients |-> [p \in Rows |-> None]]
  /\ req = [c \in Clients |-> Idle]
  /\ ops = 0 /\ rekeys = 0 /\ faults = 0
  /\ asked = [p \in Rows |-> None]
  /\ behind = [c \in Clients |-> {}]
  /\ behindReq = [c \in Clients |-> {}]
  /\ undone = {}
  /\ doubtful = {}

Registered(p) == page[p] \notin {None, Gone}

-----------------------------------------------------------------------------
(* The token.  A stored text is the token it was made of, followed by the  *)
(* keys it has been sealed with; the empty text stays empty.               *)

(* Breakage of Encrypt: a text that looks sealed is taken for a sealed one.*)
EncryptOnce(k, text) ==
  IF k = None \/ text = <<>> \/ Len(text) > 1 \/ text[1] \in Base64 THEN text ELSE Append(text, k)

Encrypt(k, text) == IF k = None \/ text = <<>> THEN text ELSE Append(text, k)

LooksSealed(text) == Len(text) > 1 \/ text[1] \in Base64

(* A text that is not base64 is taken for a token from before the key; one *)
(* that is and cannot be opened comes out empty, with an error.            *)
Decrypt(k, text) ==
  IF k = None \/ text = <<>> THEN text
  ELSE IF Len(text) > 1 /\ Last(text) = k THEN Front(text)
  ELSE IF LooksSealed(text) THEN <<>> ELSE text

-----------------------------------------------------------------------------
(* The repository: a row as the services see it, and back.                 *)

(* An error of Decrypt is dropped.                                         *)
PageFromRow(row) == [row EXCEPT !.token = Decrypt(key, @)]

RowFromPage(m) == [m EXCEPT !.token = Encrypt(key, @)]

-----------------------------------------------------------------------------
(* Statements                                                              *)

GetPage(p) == IF Registered(p) THEN PageFromRow(page[p]) ELSE None

ListPages == [p \in Rows |-> GetPage(p)]

GetByFBID(f) == {p \in Rows : Registered(p) /\ page[p].fb = f}

(* The unique index on page_id.                                            *)
UniqueFb(f) == GetByFBID(f) = {}

(* The foreign key of ai_persona_id.                                       *)
PersonaExists(a) == a \in personas \cup {None}

InsertPage(p, m) == page' = [page EXCEPT ![p] = RowFromPage(m)]

(* The row's id is not used again.                                         *)
RemovePage(p) == page' = [page EXCEPT ![p] = Gone]

(* Unless the row or the persona is gone.                                  *)
UpdatePage(p, m) ==
  /\ Registered(p) /\ PersonaExists(m.persona)
  /\ page' = [page EXCEPT ![p] = RowFromPage(m)]

(* SET column = value of the three switches, of the persona's columns, and *)
(* of ai_persona_id.  A row that is gone is not found.                     *)
SetField(p, fld, v) ==
  page' = IF Registered(p) THEN [page EXCEPT ![p][fld] = v] ELSE page

TogglePagePosting(p, b) == SetField(p, "posting", b)

(* Breakage of TogglePageAI: its statement sets posting_enabled, too.      *)
TogglePageBoth(p, b) ==
  page' = IF Registered(p) THEN [page EXCEPT ![p].ai = b, ![p].posting = b] ELSE page

TogglePageAI(p, b) == SetField(p, "ai", b)

UpdatePagePersona(p, t) == SetField(p, "texts", t)

UpdatePageAIPersona(p, a) == SetField(p, "persona", a)

InsertAIPersona(a) == personas' = personas \cup {a}

RemoveAIPersona(a) == personas' = personas \ {a}

-----------------------------------------------------------------------------
(* History                                                                 *)

Each(p, F) == {p} \X F

(* The fields F of row p have been asked to be as in m: whoever has read   *)
(* the row before is behind.                                               *)
Ask(p, F, m) ==
  /\ asked' = [asked EXCEPT ![p] =
                 [g \in Fields |-> IF g \in F THEN m[g] ELSE asked[p][g]]]
  /\ behind' = [c \in Clients |-> behind[c] \cup Each(p, F)]
  /\ behindReq' = [c \in Clients |-> behindReq[c] \cup Each(p, F)]

(* Client c writes row p back as it was when the fields B were as asked.   *)
WriteBack(p, B) == undone' = undone \cup (B \cap Each(p, Fields))

-----------------------------------------------------------------------------
(* Requests                                                                *)

Op ==
  /\ ops < MaxOps
  /\ ops' = ops + 1

Answer(c) == req' = [req EXCEPT ![c] = Idle]

(* A call fails, or the client goes away: the request ends without effect. *)
GiveUp(c) ==
  /\ req[c] # Idle
  /\ faults < MaxFaults
  /\ faults' = faults + 1
  /\ Answer(c)
  /\ UNCHANGED <<tables, listed, ops, rekeys, hist>>

List(c) ==
  /\ listed' = [listed EXCEPT ![c] = ListPages]
  /\ behind' = [behind EXCEPT ![c] = {}]
  /\ UNCHANGED <<tables, req, bounds, asked, behindReq, undone, doubtful>>

(* Add: the check for a known page.  A name that is missing is looked up   *)
(* or made up; blank ids and tokens are refused.                           *)
Add(c, f, m) ==
  /\ req[c] = Idle
  /\ Op
  /\ req' = [req EXCEPT ![c] = IF GetByFBID(f) = {} THEN [Idle EXCEPT !.at = "create", !.copy = m] ELSE Idle]
  /\ UNCHANGED <<tables, listed, rekeys, faults, hist>>

(* Add: CreatePage, which refuses a page that another request has added.   *)
CreatePage(c) ==
  /\ req[c].at = "create"
  /\ LET m == req[c].copy IN
     \/ /\ UniqueFb(m.fb)
        /\ \E p \in Rows :
             /\ page[p] = None
             /\ InsertPage(p, m)
             /\ asked' = [asked EXCEPT ![p] = [g \in Fields |-> m[g]]]
     \/ ~UniqueFb(m.fb) /\ UNCHANGED <<page, asked>>
  /\ Answer(c)
  /\ UNCHANGED <<personas, key, listed, bounds, behind, behindReq, undone, doubtful>>

(* Update, as the plugin sends it: the page as the list shows it, with its *)
(* switches set.  The list's token goes along.                             *)
Update(c, p, b) ==
  /\ req[c] = Idle
  /\ listed[c][p] # None
  /\ Op
  /\ LET m == [listed[c][p] EXCEPT !.active = b, !.posting = b, !.ai = b] IN
     \/ /\ UpdatePage(p, m)
        /\ Ask(p, Switches, m)
        /\ WriteBack(p, {x \in behind[c] : x[2] \notin Switches})
     \/ /\ ~(Registered(p) /\ PersonaExists(m.persona))
        /\ UNCHANGED <<page, asked, behind, behindReq, undone>>
  /\ UNCHANGED <<personas, key, requests, rekeys, faults, doubtful>>

DeletePage(p) ==
  /\ Registered(p)
  /\ Op
  /\ RemovePage(p)
  /\ UNCHANGED <<personas, key, requests, rekeys, faults, hist>>

(* The requests that name a page by Facebook's id look its row up first.   *)
Find(c, f, fld, v) ==
  /\ req[c] = Idle
  /\ Op
  /\ \E p \in GetByFBID(f) :
       req' = [req EXCEPT ![c] = [Idle EXCEPT !.at = "apply", !.row = p, !.field = fld, !.value = v]]
  /\ UNCHANGED <<tables, listed, rekeys, faults, hist>>

TogglePosting(c, f, b) == Find(c, f, "posting", b)

ToggleAI(c, f, b) == Find(c, f, "ai", b)

UpdatePersona(c, f, t) == Find(c, f, "texts", t)

SetPagePersona(c, f, a) == Find(c, f, "persona", a)

(* Their statement on the row found, which may be gone by now, like the    *)
(* persona.                                                                *)
Apply(c) ==
  /\ req[c].at = "apply"
  /\ LET p == req[c].row  fld == req[c].field  v == req[c].value IN
     IF Registered(p) /\ (fld = "persona" => PersonaExists(v))
     THEN /\ \/ fld = "posting" /\ TogglePagePosting(p, v)
             \/ fld = "ai" /\ TogglePageAI(p, v)
             \/ fld = "texts" /\ UpdatePagePersona(p, v)
             \/ fld = "persona" /\ UpdatePageAIPersona(p, v)
          /\ Ask(p, {fld}, [asked[p] EXCEPT ![fld] = v])
     ELSE UNCHANGED <<page, asked, behind, behindReq>>
  /\ Answer(c)
  /\ UNCHANGED <<personas, key, listed, bounds, undone, doubtful>>

(* TestConnection looks the row up and asks Facebook, ...                  *)
TestConnection(c, f) ==
  /\ req[c] = Idle
  /\ Op
  /\ \E p \in GetByFBID(f) : req' = [req EXCEPT ![c] = [Idle EXCEPT !.at = "touch", !.row = p]]
  /\ UNCHANGED <<tables, listed, rekeys, faults, hist>>

(* ... and if the token is good, reads the row again ...                   *)
ReadForTouch(c) ==
  /\ req[c].at = "touch"
  /\ \/ /\ Registered(req[c].row)
        /\ req' = [req EXCEPT ![c].at = "writeBack", ![c].copy = GetPage(req[c].row)]
     \/ Answer(c)
  /\ behindReq' = [behindReq EXCEPT ![c] = {}]
  /\ UNCHANGED <<tables, listed, bounds, asked, behind, undone, doubtful>>

(* ... to write all of it back, for the sake of a time that UpdatePage     *)
(* does not write.                                                         *)
TouchLastActive(c) ==
  /\ req[c].at = "writeBack"
  /\ LET p == req[c].row  m == req[c].copy IN
     \/ UpdatePage(p, m) /\ WriteBack(p, behindReq[c])
     \/ ~(Registered(p) /\ PersonaExists(m.persona)) /\ UNCHANGED <<page, undone>>
  /\ Answer(c)
  /\ UNCHANGED <<personas, key, listed, bounds, asked, behind, behindReq, doubtful>>

CreateAIPersona(a) ==
  /\ a \notin personas
  /\ Op
  /\ InsertAIPersona(a)
  /\ UNCHANGED <<page, key, requests, rekeys, faults, hist>>

(* ai_persona_id ON DELETE SET NULL                                        *)
DeleteAIPersona(a) ==
  /\ a \in personas
  /\ Op
  /\ RemoveAIPersona(a)
  /\ LET Has == {p \in Rows : Registered(p) /\ page[p].persona = a} IN
     /\ page' = [p \in Rows |-> IF p \in Has THEN [page[p] EXCEPT !.persona = None] ELSE page[p]]
     /\ asked' = [p \in Rows |-> IF p \in Has THEN [asked[p] EXCEPT !["persona"] = None] ELSE asked[p]]
     /\ behind' = [c \in Clients |-> behind[c] \cup (Has \X {"persona"})]
     /\ behindReq' = [c \in Clients |-> behindReq[c] \cup (Has \X {"persona"})]
  /\ UNCHANGED <<key, requests, rekeys, faults, undone, doubtful>>

(* The server is started again with a key, with another one, or with none. *)
Restart(k) ==
  /\ rekeys < MaxRekeys
  /\ rekeys' = rekeys + 1
  /\ key' = k
  /\ doubtful' = doubtful \cup
       IF key = k THEN {}
       ELSE IF key = None THEN {p \in Rows : Registered(p) /\ LooksSealed(page[p].token)}
       ELSE Rows
  /\ req' = [c \in Clients |-> Idle]
  /\ UNCHANGED <<page, personas, listed, ops, faults, asked, behind, behindReq, undone>>

NewPage == [fb : FbPages, token : {<<t>> : t \in Tokens}, active : {TRUE},
            posting : BOOLEAN, ai : {FALSE}, persona : {None}, texts : Texts]

PageRequests ==
  \/ \E c \in Clients :
       \/ List(c) \/ CreatePage(c) \/ Apply(c) \/ ReadForTouch(c) \/ TouchLastActive(c) \/ GiveUp(c)
       \/ \E m \in NewPage : Add(c, m.fb, m)
       \/ \E p \in Rows, b \in BOOLEAN : Update(c, p, b)
       \/ \E f \in FbPages :
            \/ TestConnection(c, f)
            \/ \E b \in BOOLEAN : TogglePosting(c, f, b) \/ ToggleAI(c, f, b)
            \/ \E t \in Texts : UpdatePersona(c, f, t)
            \/ \E a \in Personas \cup {None} : SetPagePersona(c, f, a)
  \/ \E a \in Personas : CreateAIPersona(a) \/ DeleteAIPersona(a)
=============================================================================
