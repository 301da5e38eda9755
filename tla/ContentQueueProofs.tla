-------------------------- MODULE ContentQueueProofs --------------------------
(***************************************************************************)
(* Proofs about ContentQueue, and the pages it is composed with, for any   *)
(* number of pages, personas, keys, clients, items and publishers, and for *)
(* any bounds.                                                             *)
(*                                                                         *)
(* PagesInv says that a copy of a page, whoever holds it, is the page as   *)
(* asked but for the fields that have changed behind it; QueueInv says     *)
(* that every post is in the history, about to be written there, or cut.   *)
(***************************************************************************)
EXTENDS ContentQueue, SequenceTheorems, FiniteSetTheorems, TLAPS

-----------------------------------------------------------------------------
(* The tokens as texts, and what a page is asked to be.                    *)
Plain == {<<t>> : t \in Tokens}

Kept == Fields \ {"token"}

Values == BOOLEAN \cup Texts \cup Personas \cup {None}

AskedRow == {r \in [Fields -> Plain \cup Values] : r["token"] \in Plain}

(* The types of the variables.                                             *)
Request == [at : {"idle", "create", "apply", "touch", "writeBack"}, row : Rows \cup {None},
            field : Fields \cup {"none"}, value : Values, copy : PageRow \cup {None}]

PageTypes ==
  /\ page \in [Rows -> PageRow \cup {None, Gone}]
  /\ personas \subseteq Personas /\ key \in Keys \cup {None}
  /\ listed \in [Clients -> [Rows -> PageRow \cup {None}]]
  /\ req \in [Clients -> Request]
  /\ asked \in [Rows -> AskedRow \cup {None}]
  /\ behind \in [Clients -> SUBSET (Rows \X Fields)]
  /\ behindReq \in [Clients -> SUBSET (Rows \X Fields)]
  /\ undone \subseteq Rows \X Fields
  /\ doubtful \subseteq Rows

Bounded == ops \in 0 .. MaxOps /\ rekeys \in 0 .. MaxRekeys /\ faults \in 0 .. MaxFaults

(* Page m, read from row p when the fields B were up to date since, is as  *)
(* asked, but for what is noted as undone or doubtful.                     *)
AsAsked(m, p, B) ==
  Registered(p) =>
    /\ m.fb = page[p].fb
    /\ p \notin doubtful => m.token = asked[p]["token"]
    /\ \A g \in Kept : m[g] # asked[p][g] => <<p, g>> \in B \cup undone

(* Each row shows the page as asked.                                       *)
RowsOK ==
  \A p \in Rows :
    /\ page[p] # None => asked[p] \in AskedRow
    /\ Registered(p) => PersonaExists(page[p].persona)
    /\ Registered(p) => AsAsked(GetPage(p), p, {})

ListsOK ==
  \A c \in Clients, p \in Rows : listed[c][p] # None =>
    page[p] # None /\ AsAsked(listed[c][p], p, behind[c])

(* What a request has found and read.                                      *)
RequestOK(r, B) ==
  /\ r.at = "create" => r.copy \in NewPage
  /\ r.at \in {"apply", "touch", "writeBack"} => r.row \in Rows /\ page[r.row] # None
  /\ r.at = "apply" =>
       \/ r.field \in {"posting", "ai"} /\ r.value \in BOOLEAN
       \/ r.field = "texts" /\ r.value \in Texts
       \/ r.field = "persona" /\ r.value \in Personas \cup {None}
  /\ r.at = "writeBack" => r.copy \in PageRow /\ AsAsked(r.copy, r.row, B)

RequestsOK == \A c \in Clients : RequestOK(req[c], behindReq[c])

(* The inductive invariant of the pages.                                   *)
PagesInv == PageTypes /\ Bounded /\ RowsOK /\ ListsOK /\ RequestsOK

(* What no request about a page takes back.                                *)
Lasting ==
  /\ \A r \in Rows : Registered(r) => Registered(r)'
  /\ undone \subseteq undone'

-----------------------------------------------------------------------------
(* A token that is sealed comes back as it was.                            *)
LEMMA Sealed ==
  ASSUME NEW k \in Keys \cup {None}, NEW s \in Seq(Tokens \cup Keys)
  PROVE  /\ Encrypt(k, s) \in Seq(Tokens \cup Keys)
         /\ Decrypt(k, s) \in Seq(Tokens \cup Keys)
         /\ s \in Plain => Decrypt(k, Encrypt(k, s)) = s
<1>1. Front(s) = SubSeq(s, 1, Len(s) - 1)
  BY DEF Front
<1>2. Encrypt(k, s) \in Seq(Tokens \cup Keys)
  BY PagesAssumption DEF Encrypt
<1>3. Decrypt(k, s) \in Seq(Tokens \cup Keys)
  BY <1>1 DEF Decrypt
<1>4. ASSUME NEW t \in Tokens, s = <<t>> PROVE Decrypt(k, Encrypt(k, s)) = s
  <2>1. Len(s) = 1 /\ s[1] = t /\ s # <<>>
    BY <1>4
  <2>2. CASE k = None
    BY <2>2 DEF Encrypt, Decrypt
  <2>3. CASE k # None
    <3> DEFINE e == Append(s, k)
    <3>1. e \in Seq(Tokens \cup Keys) /\ Len(e) = 2 /\ e[1] = t /\ e[2] = k
      <4>1. k \in Tokens \cup Keys /\ s \in Seq(Tokens \cup Keys)
        BY <2>3
      <4>2. e \in Seq(Tokens \cup Keys) /\ Len(e) = Len(s) + 1 /\ e[Len(s) + 1] = k
            /\ \A i \in 1 .. Len(s) : e[i] = s[i]
        BY <4>1, AppendProperties
      <4>3. QED
        <5> HIDE DEF e
        <5>1. QED
          BY <2>1, <4>2
    <3>2. Encrypt(k, s) = e
      BY <2>1, <2>3 DEF Encrypt
    <3>3. Decrypt(k, e) = SubSeq(e, 1, 1)
      <4> HIDE DEF e
      <4>1. QED
        BY <2>3, <3>1 DEF Decrypt, Last, Front
    <3>4. SubSeq(e, 1, 1) = s
      <4> HIDE DEF e
      <4>1. QED
        <5>1. SubSeq(e, 1, 1) \in Seq(Tokens \cup Keys) /\ Len(SubSeq(e, 1, 1)) = 1 /\ SubSeq(e, 1, 1)[1] = t
          BY <3>1, SubSeqProperties
        <5>2. QED
          BY <5>1, <2>1, SeqEqual
    <3>5. QED
      BY <3>2, <3>3, <3>4
  <2>4. QED
    BY <2>2, <2>3
<1>5. QED
  BY <1>2, <1>3, <1>4 DEF Plain

(* What a row shows of its page: all of it but the token as stored.        *)
LEMMA Read ==
  ASSUME PageTypes, NEW p \in Rows, Registered(p)
  PROVE  /\ page[p] \in PageRow
         /\ GetPage(p) \in PageRow
         /\ GetPage(p).fb = page[p].fb /\ GetPage(p).persona = page[p].persona
         /\ GetPage(p).posting = page[p].posting
         /\ GetPage(p).token = Decrypt(key, page[p].token)
         /\ \A g \in Kept : GetPage(p)[g] = page[p][g]
<1>1. page[p] \in PageRow
  BY DEF PageTypes, Registered
<1>2. Decrypt(key, page[p].token) \in Seq(Tokens \cup Keys)
  BY <1>1, Sealed DEF PageRow, PageTypes
<1>3. GetPage(p) = [page[p] EXCEPT !.token = Decrypt(key, page[p].token)]
  BY <1>1 DEF GetPage, PageFromRow, PageRow
<1>4. QED
  BY <1>1, <1>2, <1>3 DEF PageRow, Kept, Fields, Switches

(* A page that is written back shows as it was written.                    *)
LEMMA Write ==
  ASSUME PageTypes, NEW p \in Rows, NEW m \in PageRow,
         page' = [page EXCEPT ![p] = RowFromPage(m)], UNCHANGED key
  PROVE  /\ page' \in [Rows -> PageRow \cup {None, Gone}]
         /\ page'[p] \in PageRow /\ Registered(p)'
         /\ page'[p].fb = m.fb /\ page'[p].persona = m.persona
         /\ GetPage(p)'.fb = m.fb
         /\ m.token \in Plain => GetPage(p)'.token = m.token
         /\ \A g \in Kept : GetPage(p)'[g] = m[g]
         /\ \A r \in Rows \ {p} : page'[r] = page[r] /\ GetPage(r)' = GetPage(r) /\ Registered(r)' = Registered(r)
<1> DEFINE x == Encrypt(key, m.token)
<1>1. m.token \in Seq(Tokens \cup Keys)
  BY DEF PageRow
<1>2. x \in Seq(Tokens \cup Keys) /\ (m.token \in Plain => Decrypt(key, x) = m.token)
  BY <1>1, Sealed DEF PageTypes
<1>3. RowFromPage(m) = [m EXCEPT !.token = x]
  BY DEF RowFromPage, PageRow
<1>4. RowFromPage(m) \in PageRow /\ RowFromPage(m).token = x /\ RowFromPage(m).fb = m.fb
      /\ RowFromPage(m).persona = m.persona /\ \A g \in Kept : RowFromPage(m)[g] = m[g]
  <2> HIDE DEF x
  <2>1. QED
    BY <1>2, <1>3 DEF PageRow, Kept, Fields, Switches
<1>5. page' \in [Rows -> PageRow \cup {None, Gone}] /\ page'[p] = RowFromPage(m)
      /\ \A r \in Rows \ {p} : page'[r] = page[r]
  BY <1>4 DEF PageTypes
<1>6. Registered(p)'
  BY <1>4, <1>5, PagesAssumption DEF Registered
<1>7. GetPage(p)' = [RowFromPage(m) EXCEPT !.token = Decrypt(key, x)]
  BY <1>4, <1>5, <1>6 DEF GetPage, PageFromRow, PageRow
<1>8. GetPage(p)'.fb = m.fb /\ GetPage(p)'.token = Decrypt(key, x) /\ \A g \in Kept : GetPage(p)'[g] = m[g]
  <2> HIDE DEF x
  <2>1. QED
    BY <1>4, <1>7 DEF PageRow, Kept, Fields, Switches
<1>9. \A r \in Rows \ {p} : GetPage(r)' = GetPage(r) /\ Registered(r)' = Registered(r)
  BY <1>5 DEF GetPage, Registered, PageFromRow
<1>10. QED
  BY <1>2, <1>4, <1>5, <1>6, <1>8, <1>9

(* What Add writes is a row, with a token.                                 *)
LEMMA NewPages == NewPage \subseteq PageRow /\ \A m \in NewPage : m.token \in Plain
<1>0. ASSUME NEW t \in Tokens PROVE <<t>> \in Seq(Tokens \cup Keys)
  OBVIOUS
<1>1. Plain \subseteq Seq(Tokens \cup Keys)
  BY <1>0 DEF Plain
<1>2. NewPage \subseteq [fb : FbPages, token : Plain, active : BOOLEAN, posting : BOOLEAN,
                        ai : BOOLEAN, persona : Personas \cup {None}, texts : Texts]
  BY DEF NewPage, Plain
<1>3. QED
  BY <1>1, <1>2 DEF PageRow

-----------------------------------------------------------------------------
(* A client without a request.                                             *)
LEMMA IdleIsOK == Idle \in Request /\ \A B : RequestOK(Idle, B)
  BY DEF Idle, Request, RequestOK, Values

(* A request that leaves pages and history alone.                          *)
LEMMA RequestStep ==
  ASSUME PagesInv, NEW c \in Clients, NEW r \in Request, req' = [req EXCEPT ![c] = r],
         RequestOK(r, behindReq[c]), UNCHANGED <<tables, listed, hist>>, Bounded'
  PROVE  PagesInv' /\ Lasting
<1> USE DEF PagesInv, tables, hist
<1>1. PageTypes'
  BY DEF PageTypes
<1>2. RowsOK'
  BY DEF RowsOK, AsAsked, GetPage, PageFromRow, Registered, PersonaExists
<1>3. ListsOK'
  BY DEF ListsOK, AsAsked, Registered
<1>4. RequestsOK'
  BY DEF RequestsOK, RequestOK, AsAsked, Registered, PageTypes
<1>5. Lasting
  BY DEF Lasting, Registered
<1>6. QED
  BY <1>1, <1>2, <1>3, <1>4, <1>5

(* A step on the rows of pages that adds none: what is a copy as asked     *)
(* stays one.                                                              *)
LEMMA RowStep ==
  ASSUME PagesInv, PageTypes', Bounded', RowsOK', UNCHANGED listed,
         doubtful \subseteq doubtful', undone \subseteq undone',
         \A c \in Clients : behind[c] \subseteq behind'[c] /\ behindReq[c] \subseteq behindReq'[c],
         \A c \in Clients : req'[c] = req[c] \/ req'[c] = Idle,
         \A p \in Rows : page[p] # None => page'[p] # None,
         \A p \in Rows : Registered(p)' =>
           /\ Registered(p) /\ page'[p].fb = page[p].fb
           /\ asked'[p]["token"] = asked[p]["token"]
           /\ \A g \in Kept : asked'[p][g] # asked[p][g] =>
                \A c \in Clients : <<p, g>> \in behind'[c] \cap behindReq'[c]
  PROVE  PagesInv'
<1> USE DEF PagesInv
<1>1. ListsOK'
  BY DEF ListsOK, AsAsked
<1>2. ASSUME NEW c \in Clients PROVE RequestOK(req[c], behindReq[c])'
  <2>1. CASE req'[c] = req[c]
    BY <1>2, <2>1 DEF RequestsOK, RequestOK, AsAsked
  <2>2. CASE req'[c] = Idle
    BY <1>2, <2>2 DEF RequestOK, Idle
  <2>3. QED
    BY <1>2, <2>1, <2>2
<1>3. QED
  BY <1>1, <1>2 DEF RequestsOK

(* A list shows each page as asked.                                        *)
LEMMA ListStep ==
  ASSUME PagesInv, NEW c \in Clients, List(c) PROVE PagesInv' /\ Lasting
<1> USE DEF PagesInv, tables, bounds
<1>0. UNCHANGED <<page, personas, key, req, ops, rekeys, faults, asked, behindReq, undone, doubtful>>
      /\ listed' = [listed EXCEPT ![c] = ListPages] /\ behind' = [behind EXCEPT ![c] = {}]
  BY DEF List
<1>1. \A p \in Rows : GetPage(p) \in PageRow \cup {None}
  BY Read DEF GetPage
<1>2. PageTypes'
  BY <1>0, <1>1 DEF PageTypes, ListPages
<1>3. RowsOK' /\ RequestsOK' /\ Bounded'
  BY <1>0 DEF RowsOK, RequestsOK, RequestOK, Bounded, AsAsked, GetPage, PageFromRow,
              Registered, PersonaExists
<1>4. ASSUME NEW d \in Clients, NEW p \in Rows, listed'[d][p] # None
      PROVE  page'[p] # None /\ AsAsked(listed[d][p], p, behind[d])'
  <2>1. CASE d = c
    <3>1. listed'[c][p] = GetPage(p) /\ behind'[c] = {}
      BY <1>0, <1>4 DEF PageTypes, ListPages
    <3>2. Registered(p)
      BY <1>4, <2>1, <3>1 DEF GetPage
    <3>3. QED
      BY <1>0, <2>1, <3>1, <3>2 DEF RowsOK, AsAsked, Registered
  <2>2. CASE d # c
    BY <1>0, <1>4, <2>2 DEF ListsOK, AsAsked, Registered, PageTypes
  <2>3. QED
    BY <2>1, <2>2
<1>5. Lasting
  BY <1>0 DEF Lasting, Registered
<1>6. QED
  BY <1>2, <1>3, <1>4, <1>5 DEF ListsOK

(* The checks of the requests that come before a statement.                *)
LEMMA AddStep ==
  ASSUME PagesInv, NEW c \in Clients, NEW m \in NewPage, Add(c, m.fb, m) PROVE PagesInv' /\ Lasting
<1> DEFINE r == [Idle EXCEPT !.at = "create", !.copy = m]
<1>1. m \in PageRow
  BY NewPages
<1>2. r \in Request /\ r.at = "create" /\ r.copy = m
  BY <1>1 DEF Request, Idle, Values
<1>3. RequestOK(r, behindReq[c])
  <2> HIDE DEF r
  <2>1. QED
    BY <1>2 DEF RequestOK
<1>4. Bounded'
  BY PagesAssumption DEF Add, Op, Bounded, PagesInv
<1>5. UNCHANGED <<tables, listed, hist>> /\ (req' = [req EXCEPT ![c] = r] \/ req' = [req EXCEPT ![c] = Idle])
  BY DEF Add
<1>6. QED
  BY <1>2, <1>3, <1>4, <1>5, IdleIsOK, RequestStep

(* A request that ends without effect.                                     *)
LEMMA GiveUpStep ==
  ASSUME PagesInv, NEW c \in Clients, GiveUp(c) PROVE PagesInv' /\ Lasting
<1>1. Bounded'
  BY PagesAssumption DEF GiveUp, Bounded, PagesInv
<1>2. QED
  BY <1>1, IdleIsOK, RequestStep DEF GiveUp, Answer

(* The requests that name a page by Facebook's id.                         *)
LEMMA FindStep ==
  ASSUME PagesInv, NEW c \in Clients, NEW f \in FbPages, NEW fld \in Fields, NEW v \in Values,
         Find(c, f, fld, v),
         \/ fld \in {"posting", "ai"} /\ v \in BOOLEAN
         \/ fld = "texts" /\ v \in Texts
         \/ fld = "persona" /\ v \in Personas \cup {None}
  PROVE  PagesInv' /\ Lasting
<1>1. PICK p \in GetByFBID(f) :
        req' = [req EXCEPT ![c] = [Idle EXCEPT !.at = "apply", !.row = p, !.field = fld, !.value = v]]
  BY DEF Find
<1> DEFINE r == [Idle EXCEPT !.at = "apply", !.row = p, !.field = fld, !.value = v]
<1>2. p \in Rows /\ page[p] # None
  BY DEF GetByFBID, Registered
<1>3. r \in Request /\ r.at = "apply" /\ r.row = p /\ r.field = fld /\ r.value = v
  BY <1>2 DEF Request, Idle
<1>4. RequestOK(r, behindReq[c])
  <2> HIDE DEF r
  <2>1. QED
    BY <1>2, <1>3 DEF RequestOK
<1>5. Bounded'
  BY PagesAssumption DEF Find, Op, Bounded, PagesInv
<1>6. QED
  BY <1>1, <1>3, <1>4, <1>5, RequestStep DEF Find

(* Those that look the page up for its token.                              *)
LEMMA TestConnectionStep ==
  ASSUME PagesInv, NEW c \in Clients, NEW f \in FbPages, TestConnection(c, f) PROVE PagesInv' /\ Lasting
<1>1. PICK p \in GetByFBID(f) : req' = [req EXCEPT ![c] = [Idle EXCEPT !.at = "touch", !.row = p]]
  BY DEF TestConnection
<1> DEFINE r == [Idle EXCEPT !.at = "touch", !.row = p]
<1>2. p \in Rows /\ page[p] # None
  BY DEF GetByFBID, Registered
<1>3. r \in Request /\ r.at = "touch" /\ r.row = p
  BY <1>2 DEF Request, Idle, Values
<1>4. RequestOK(r, behindReq[c])
  <2> HIDE DEF r
  <2>1. QED
    BY <1>2, <1>3 DEF RequestOK
<1>5. Bounded'
  BY PagesAssumption DEF TestConnection, Op, Bounded, PagesInv
<1>6. QED
  BY <1>1, <1>3, <1>4, <1>5, RequestStep DEF TestConnection

(* What is written back is as asked but for what is noted as undone.       *)
LEMMA WriteCopy ==
  ASSUME PagesInv, NEW p \in Rows, NEW m \in PageRow, UpdatePage(p, m),
         UNCHANGED <<personas, key, listed, doubtful>>, Bounded',
         req' \in [Clients -> Request], \A c \in Clients : req'[c] = req[c] \/ req'[c] = Idle,
         m.fb = page[p].fb, p \notin doubtful => m.token = asked[p]["token"],
         asked' \in [Rows -> AskedRow \cup {None}], asked'[p] \in AskedRow,
         \A r \in Rows \ {p} : asked'[r] = asked[r],
         asked'[p]["token"] = asked[p]["token"],
         undone \subseteq undone', undone' \subseteq Rows \X Fields,
         behind' \in [Clients -> SUBSET (Rows \X Fields)],
         behindReq' \in [Clients -> SUBSET (Rows \X Fields)],
         \A c \in Clients : behind[c] \subseteq behind'[c] /\ behindReq[c] \subseteq behindReq'[c],
         \A g \in Kept : asked'[p][g] # asked[p][g] =>
           \A c \in Clients : <<p, g>> \in behind'[c] \cap behindReq'[c],
         \A g \in Kept : m[g] # asked'[p][g] => <<p, g>> \in undone'
  PROVE  PagesInv' /\ Lasting
<1>0. PageTypes /\ RowsOK /\ Registered(p) /\ page' = [page EXCEPT ![p] = RowFromPage(m)] /\ UNCHANGED key
  BY DEF PagesInv, UpdatePage
<1>1. /\ page' \in [Rows -> PageRow \cup {None, Gone}]
      /\ page'[p] \in PageRow /\ Registered(p)'
      /\ page'[p].fb = m.fb /\ page'[p].persona = m.persona
      /\ GetPage(p)'.fb = m.fb
      /\ m.token \in Plain => GetPage(p)'.token = m.token
      /\ \A g \in Kept : GetPage(p)'[g] = m[g]
      /\ \A r \in Rows \ {p} : page'[r] = page[r] /\ GetPage(r)' = GetPage(r) /\ Registered(r)' = Registered(r)
  BY <1>0, Write, Zenon
<1>2. PageTypes'
  BY <1>0, <1>1 DEF PageTypes
<1>3. ASSUME NEW r \in Rows
      PROVE  /\ page'[r] # None => asked'[r] \in AskedRow
             /\ Registered(r)' => PersonaExists(page[r].persona)'
             /\ Registered(r)' => AsAsked(GetPage(r), r, {})'
  <2>1. CASE r = p
    <3>1. p \notin doubtful => m.token \in Plain
      BY <1>0 DEF RowsOK, AskedRow, Registered
    <3>2. QED
      BY <1>1, <2>1, <3>1 DEF UpdatePage, PersonaExists, AsAsked
  <2>2. CASE r # p
    BY <1>0, <1>1, <2>2 DEF RowsOK, PersonaExists, AsAsked
  <2>3. QED
    BY <2>1, <2>2
<1>4. RowsOK'
  BY <1>3 DEF RowsOK
<1>5. ASSUME NEW r \in Rows PROVE page[r] # None => page'[r] # None
  BY <1>0, <1>1 DEF Registered
<1>6. ASSUME NEW r \in Rows, Registered(r)'
      PROVE  /\ Registered(r) /\ page'[r].fb = page[r].fb
             /\ asked'[r]["token"] = asked[r]["token"]
             /\ \A g \in Kept : asked'[r][g] # asked[r][g] =>
                  \A c \in Clients : <<r, g>> \in behind'[c] \cap behindReq'[c]
  <2>1. CASE r = p
    BY <1>0, <1>1, <2>1
  <2>2. CASE r # p
    BY <1>1, <1>6, <2>2
  <2>3. QED
    BY <2>1, <2>2
<1>7. Lasting
  BY <1>1 DEF Lasting
<1>8. PagesInv'
  BY <1>2, <1>4, <1>5, <1>6, RowStep
<1>9. QED
  BY <1>7, <1>8

(* The copy read for touchLastActive is as asked.                          *)
LEMMA ReadForTouchStep ==
  ASSUME PagesInv, NEW c \in Clients, ReadForTouch(c) PROVE PagesInv' /\ Lasting
<1> USE DEF PagesInv
<1>0. /\ UNCHANGED <<page, personas, key, listed, ops, rekeys, faults, asked, behind, undone, doubtful>>
      /\ behindReq' = [behindReq EXCEPT ![c] = {}] /\ req[c].at = "touch"
  BY DEF ReadForTouch, tables, bounds
<1>1. req[c] \in Request /\ RequestOK(req[c], behindReq[c])
  BY DEF RequestsOK, PageTypes
<1>2. ASSUME Registered(req[c].row)
      PROVE  /\ req[c].row \in Rows
             /\ GetPage(req[c].row) \in PageRow /\ AsAsked(GetPage(req[c].row), req[c].row, {})
  <2>1. req[c].row \in Rows
    BY <1>0, <1>1 DEF RequestOK
  <2>2. QED
    BY <1>2, <2>1, Read DEF RowsOK
<1>3. PICK r \in Request : req' = [req EXCEPT ![c] = r] /\
        \/ r = Idle
        \/ /\ r.at = "writeBack" /\ r.row = req[c].row /\ Registered(req[c].row) /\ r.copy = GetPage(req[c].row)
  <2>1. CASE Answer(c)
    BY <2>1, IdleIsOK DEF Answer
  <2>2. CASE Registered(req[c].row) /\
             req' = [req EXCEPT ![c].at = "writeBack", ![c].copy = GetPage(req[c].row)]
    <3> DEFINE r == [req[c] EXCEPT !.at = "writeBack", !.copy = GetPage(req[c].row)]
    <3>1. r \in Request /\ r.at = "writeBack" /\ r.row = req[c].row /\ r.copy = GetPage(req[c].row)
      BY <1>1, <1>2, <2>2 DEF Request
    <3>2. req' = [req EXCEPT ![c] = r]
      BY <2>2 DEF PageTypes
    <3>3. QED
      BY <2>2, <3>1, <3>2
  <2>3. QED
    BY <2>1, <2>2 DEF ReadForTouch
<1>4. PageTypes' /\ Bounded' /\ Lasting
  BY <1>0, <1>3 DEF PageTypes, Bounded, Lasting, Registered
<1>5. RowsOK' /\ ListsOK'
  BY <1>0 DEF RowsOK, ListsOK, AsAsked, GetPage, PageFromRow, Registered, PersonaExists
<1>6. ASSUME NEW d \in Clients PROVE RequestOK(req[d], behindReq[d])'
  <2>1. CASE d # c
    BY <1>0, <1>3, <2>1 DEF RequestsOK, RequestOK, AsAsked, Registered, PageTypes
  <2>2. CASE d = c
    <3>1. req'[c] = r /\ behindReq'[c] = {}
      BY <1>0, <1>3 DEF PageTypes
    <3>2. CASE r = Idle
      BY <2>2, <3>1, <3>2 DEF RequestOK, Idle
    <3>3. CASE r # Idle
      <4>1. r.at = "writeBack" /\ r.row = req[c].row /\ Registered(req[c].row) /\ r.copy = GetPage(req[c].row)
        BY <1>3, <3>3
      <4>2. r.row \in Rows /\ page'[r.row] # None /\ r.copy \in PageRow /\ AsAsked(r.copy, r.row, {})'
        BY <1>0, <1>2, <4>1 DEF AsAsked, Registered
      <4>3. QED
        BY <2>2, <3>1, <4>1, <4>2 DEF RequestOK
    <3>4. QED
      BY <3>2, <3>3
  <2>3. QED
    BY <2>1, <2>2
<1>7. QED
  BY <1>4, <1>5, <1>6 DEF RequestsOK

(* A new row is as asked, and the only one of its page.                    *)
LEMMA CreateStep ==
  ASSUME PagesInv, NEW c \in Clients, CreatePage(c) PROVE PagesInv' /\ Lasting
<1> USE DEF PagesInv
<1> DEFINE m == req[c].copy
<1>0. /\ UNCHANGED <<personas, key, listed, ops, rekeys, faults, behind, behindReq, undone, doubtful>>
      /\ req' = [req EXCEPT ![c] = Idle]
  BY DEF CreatePage, Answer, bounds
<1>1. m \in NewPage /\ m \in PageRow /\ m.token \in Plain
  BY NewPages DEF RequestsOK, RequestOK, CreatePage
<1>2. CASE UNCHANGED <<page, asked>>
  BY <1>0, <1>2, IdleIsOK, RequestStep DEF tables, hist, Bounded
<1>3. ASSUME UniqueFb(m.fb), NEW p \in Rows, page[p] = None, InsertPage(p, m),
             asked' = [asked EXCEPT ![p] = [g \in Fields |-> m[g]]]
      PROVE  PagesInv' /\ Lasting
  <2> DEFINE a == [g \in Fields |-> m[g]]
  <2>1. a \in AskedRow /\ a["token"] = m.token /\ \A g \in Kept : a[g] = m[g]
    <3>1. \A g \in Kept : m[g] \in Values
      BY <1>1 DEF PageRow, Values, Kept, Fields, Switches
    <3>2. QED
      BY <1>1, <3>1 DEF AskedRow, Kept, Fields
  <2>2. /\ page' \in [Rows -> PageRow \cup {None, Gone}]
        /\ Registered(p)' /\ page'[p].fb = m.fb /\ page'[p].persona = m.persona
        /\ GetPage(p)'.fb = m.fb /\ GetPage(p)'.token = m.token
        /\ \A g \in Kept : GetPage(p)'[g] = m[g]
        /\ \A r \in Rows \ {p} : page'[r] = page[r] /\ GetPage(r)' = GetPage(r) /\ Registered(r)' = Registered(r)
    <3> HIDE DEF m
    <3>1. page' = [page EXCEPT ![p] = RowFromPage(m)] /\ UNCHANGED key
      BY <1>0, <1>3 DEF InsertPage
    <3>2. QED
      BY <1>1, <3>1, Write
  <2>3. asked'[p] = a /\ \A r \in Rows \ {p} : asked'[r] = asked[r]
    BY <1>3 DEF PageTypes
  <2>4. PageTypes' /\ Bounded'
    <3>1. asked' \in [Rows -> AskedRow \cup {None}]
      BY <1>3, <2>1 DEF PageTypes
    <3>2. req' \in [Clients -> Request]
      BY <1>0, IdleIsOK DEF PageTypes
    <3>3. QED
      BY <1>0, <2>2, <3>1, <3>2 DEF PageTypes, Bounded
  <2>5. ASSUME NEW r \in Rows
        PROVE  /\ page'[r] # None => asked'[r] \in AskedRow
               /\ Registered(r)' => PersonaExists(page[r].persona)'
               /\ Registered(r)' => AsAsked(GetPage(r), r, {})'
    <3>1. CASE r = p
      <4>1. m.persona = None
        BY <1>1 DEF NewPage
      <4>2. QED
        BY <2>1, <2>2, <2>3, <3>1, <4>1 DEF AsAsked, PersonaExists
    <3>2. CASE r # p
      BY <1>0, <2>2, <2>3, <3>2 DEF RowsOK, PersonaExists, AsAsked
    <3>3. QED
      BY <3>1, <3>2
  <2>6. RowsOK'
    BY <2>5 DEF RowsOK
  <2>7. ListsOK'
    BY <1>0, <1>3, <2>2, <2>3 DEF ListsOK, AsAsked
  <2>8. ASSUME NEW d \in Clients PROVE RequestOK(req[d], behindReq[d])'
    <3>1. CASE d = c
      BY <1>0, <3>1 DEF RequestOK, PageTypes, Idle
    <3>2. CASE d # c
      <4>1. req'[d] = req[d] /\ behindReq'[d] = behindReq[d] /\ RequestOK(req[d], behindReq[d])
        BY <1>0, <3>2 DEF PageTypes, RequestsOK
      <4>2. req[d].row \in Rows /\ page[req[d].row] # None => req[d].row # p
        BY <1>3
      <4>3. QED
        BY <1>0, <2>2, <2>3, <4>1, <4>2 DEF RequestOK, AsAsked
    <3>3. QED
      BY <3>1, <3>2
  <2>9. Lasting
    BY <1>0, <1>3, <2>2 DEF Lasting
  <2>10. QED
    BY <2>4, <2>6, <2>7, <2>8, <2>9 DEF RequestsOK
<1>4. QED
  BY <1>2, <1>3 DEF CreatePage

(* A step that leaves the pages alone.                                     *)
LEMMA PagesStutter ==
  ASSUME PagesInv, UNCHANGED <<tables, requests, hist>>, Bounded' PROVE PagesInv' /\ Lasting
<1> USE DEF PagesInv, tables, requests, hist
<1>1. PageTypes' /\ RowsOK' /\ Lasting
  BY DEF PageTypes, RowsOK, AsAsked, GetPage, PageFromRow, Registered, PersonaExists, Lasting
<1>2. ListsOK'
  BY DEF ListsOK, AsAsked, Registered
<1>3. RequestsOK'
  BY DEF RequestsOK, RequestOK, AsAsked, Registered
<1>4. QED
  BY <1>1, <1>2, <1>3

(* Update writes the list's copy, so what changed behind it is undone.     *)
LEMMA UpdateStep ==
  ASSUME PagesInv, NEW c \in Clients, NEW p \in Rows, NEW b \in BOOLEAN, Update(c, p, b)
  PROVE  PagesInv' /\ Lasting
<1> USE DEF PagesInv
<1> DEFINE n == listed[c][p]
           m == [n EXCEPT !.active = b, !.posting = b, !.ai = b]
<1>0. /\ UNCHANGED <<personas, key, listed, req, rekeys, faults, doubtful>>
      /\ Bounded' /\ n # None
  BY PagesAssumption DEF Update, requests, Bounded, Op
<1>1. n \in PageRow /\ page[p] # None /\ AsAsked(n, p, behind[c])
  BY <1>0 DEF ListsOK, PageTypes
<1>2. /\ m \in PageRow /\ m.fb = n.fb /\ m.token = n.token /\ m.persona = n.persona
      /\ \A g \in Kept \ Switches : m[g] = n[g]
      /\ \A g \in Switches : m[g] \in Values
  <2> HIDE DEF n
  <2>1. QED
    BY <1>1 DEF PageRow, Kept, Fields, Switches, Values
<1>3. CASE /\ UpdatePage(p, m)
           /\ Ask(p, Switches, m)
           /\ WriteBack(p, {x \in behind[c] : x[2] \notin Switches})
  <2> HIDE DEF m
  <2>1. Registered(p) /\ asked[p] \in AskedRow
    BY <1>1, <1>3 DEF UpdatePage, RowsOK
  <2> DEFINE a == [g \in Fields |-> IF g \in Switches THEN m[g] ELSE asked[p][g]]
  <2>2. a \in AskedRow /\ a["token"] = asked[p]["token"]
        /\ (\A g \in Switches : a[g] = m[g]) /\ (\A g \in Kept \ Switches : a[g] = asked[p][g])
    BY <1>2, <2>1 DEF AskedRow, Kept, Fields, Switches
  <2>3. asked' = [asked EXCEPT ![p] = a]
    BY <1>3 DEF Ask
  <2>4. asked'[p] = a /\ asked' \in [Rows -> AskedRow \cup {None}] /\ \A r \in Rows \ {p} : asked'[r] = asked[r]
    BY <2>2, <2>3 DEF PageTypes
  <2>5. /\ behind' \in [Clients -> SUBSET (Rows \X Fields)]
        /\ behindReq' \in [Clients -> SUBSET (Rows \X Fields)]
        /\ \A d \in Clients : behind[d] \subseteq behind'[d] /\ behindReq[d] \subseteq behindReq'[d]
        /\ \A d \in Clients, g \in Switches : <<p, g>> \in behind'[d] \cap behindReq'[d]
    <3>1. Each(p, Switches) \subseteq Rows \X Fields /\ \A g \in Switches : <<p, g>> \in Each(p, Switches)
      BY DEF Each, Fields
    <3>2. /\ behind' = [d \in Clients |-> behind[d] \cup Each(p, Switches)]
          /\ behindReq' = [d \in Clients |-> behindReq[d] \cup Each(p, Switches)]
      BY <1>3 DEF Ask
    <3>3. QED
      BY <3>1, <3>2 DEF PageTypes
  <2>6. undone \subseteq undone' /\ undone' \subseteq Rows \X Fields
    BY <1>3 DEF WriteBack, PageTypes, Each
  <2>7. ASSUME NEW g \in Kept, m[g] # asked'[p][g] PROVE <<p, g>> \in undone'
    <3>1. g \notin Switches /\ m[g] = n[g] /\ asked'[p][g] = asked[p][g]
      BY <1>2, <2>2, <2>4, <2>7
    <3>2. <<p, g>> \in behind[c] \cup undone
      BY <1>1, <2>1, <2>7, <3>1 DEF AsAsked
    <3>3. undone' = undone \cup ({x \in behind[c] : x[2] \notin Switches} \cap Each(p, Fields))
      BY <1>3 DEF WriteBack
    <3>4. <<p, g>> \in Each(p, Fields) /\ <<p, g>>[2] = g
      BY DEF Each, Kept
    <3>5. QED
      BY <3>1, <3>2, <3>3, <3>4
  <2>8. m.fb = page[p].fb /\ (p \notin doubtful => m.token = asked[p]["token"])
    BY <1>1, <1>2, <2>1 DEF AsAsked
  <2>9. req' \in [Clients -> Request]
    BY <1>0 DEF PageTypes
  <2>10. \A g \in Kept : asked'[p][g] # asked[p][g] =>
           \A d \in Clients : <<p, g>> \in behind'[d] \cap behindReq'[d]
    BY <2>2, <2>4, <2>5
  <2>11. QED
    <3> HIDE DEF a, n
    <3>1. QED
      BY <1>0, <1>2, <1>3, <2>2, <2>4, <2>5, <2>6, <2>7, <2>8, <2>9, <2>10, WriteCopy
<1>4. CASE UNCHANGED <<page, asked, behind, behindReq, undone>>
  BY <1>0, <1>4, PagesStutter DEF tables, requests, hist
<1>5. QED
  BY <1>3, <1>4 DEF Update

(* touchLastActive writes its copy, too.                                   *)
LEMMA TouchStep ==
  ASSUME PagesInv, NEW c \in Clients, TouchLastActive(c) PROVE PagesInv' /\ Lasting
<1> USE DEF PagesInv
<1> DEFINE p == req[c].row
           m == req[c].copy
<1>0. /\ UNCHANGED <<personas, key, listed, ops, rekeys, faults, asked, behind, behindReq, doubtful>>
      /\ req' = [req EXCEPT ![c] = Idle]
  BY DEF TouchLastActive, Answer, bounds
<1>1. p \in Rows /\ page[p] # None /\ m \in PageRow /\ AsAsked(m, p, behindReq[c])
  BY DEF RequestsOK, RequestOK, TouchLastActive
<1>2. CASE UpdatePage(p, m) /\ WriteBack(p, behindReq[c])
  <2> HIDE DEF p, m
  <2>1. Registered(p) /\ asked[p] \in AskedRow
    BY <1>1, <1>2 DEF UpdatePage, RowsOK
  <2>2. undone' = undone \cup (behindReq[c] \cap Each(p, Fields))
    BY <1>2 DEF WriteBack
  <2>3. undone \subseteq undone' /\ undone' \subseteq Rows \X Fields
    BY <1>1, <2>2 DEF PageTypes, Each
  <2>4. ASSUME NEW g \in Kept, m[g] # asked'[p][g] PROVE <<p, g>> \in undone'
    <3>1. <<p, g>> \in behindReq[c] \cup undone
      BY <1>0, <1>1, <2>1, <2>4 DEF AsAsked
    <3>2. <<p, g>> \in Each(p, Fields)
      BY DEF Each, Kept
    <3>3. QED
      BY <2>2, <3>1, <3>2
  <2>5. m.fb = page[p].fb /\ (p \notin doubtful => m.token = asked[p]["token"])
    BY <1>1, <2>1 DEF AsAsked
  <2>6. req' \in [Clients -> Request] /\ \A d \in Clients : req'[d] = req[d] \/ req'[d] = Idle
    BY <1>0, IdleIsOK DEF PageTypes
  <2>7. /\ asked' \in [Rows -> AskedRow \cup {None}] /\ asked'[p] \in AskedRow
        /\ behind' \in [Clients -> SUBSET (Rows \X Fields)]
        /\ behindReq' \in [Clients -> SUBSET (Rows \X Fields)]
        /\ Bounded'
    BY <1>0, <2>1 DEF PageTypes, Bounded
  <2>8. QED
    BY <1>0, <1>1, <1>2, <2>3, <2>4, <2>5, <2>6, <2>7, WriteCopy
<1>3. CASE UNCHANGED <<page, undone>>
  BY <1>0, <1>3, IdleIsOK, RequestStep DEF tables, hist, Bounded
<1>4. QED
  BY <1>2, <1>3 DEF TouchLastActive

(* One column of one row, and nobody's copy knows it.                      *)
LEMMA ApplyStep ==
  ASSUME PagesInv, NEW c \in Clients, Apply(c) PROVE PagesInv' /\ Lasting
<1> USE DEF PagesInv
<1>0. /\ UNCHANGED <<personas, key, listed, ops, rekeys, faults, undone, doubtful>>
      /\ req' = [req EXCEPT ![c] = Idle]
  BY DEF Apply, Answer, bounds
<1>1. PICK p \in Rows, fld \in Fields, v \in Values :
      /\ p = req[c].row /\ fld = req[c].field /\ v = req[c].value
      /\ page[p] # None
      /\ \/ fld \in {"posting", "ai"} /\ v \in BOOLEAN
         \/ fld = "texts" /\ v \in Texts
         \/ fld = "persona" /\ v \in Personas \cup {None}
  BY DEF RequestsOK, RequestOK, Apply, Fields, Switches, Values
<1>2. CASE Registered(p) /\ (fld = "persona" => PersonaExists(v))
  <2>1. page' = [page EXCEPT ![p] = [page[p] EXCEPT ![fld] = v]]
        /\ Ask(p, {fld}, [asked[p] EXCEPT ![fld] = v])
    BY <1>1, <1>2 DEF Apply, TogglePagePosting, TogglePageAI, UpdatePagePersona, UpdatePageAIPersona, SetField
  <2>2. page[p] \in PageRow /\ asked[p] \in AskedRow
    BY <1>1, <1>2 DEF PageTypes, RowsOK, Registered
  <2>3. fld \in Kept /\ v \in Values
    BY <1>1 DEF Kept, Fields, Switches, Values
  <2> DEFINE w == [page[p] EXCEPT ![fld] = v]
             a == [g \in Fields |-> IF g \in {fld} THEN [asked[p] EXCEPT ![fld] = v][g] ELSE asked[p][g]]
  <2>4. w \in PageRow /\ w[fld] = v /\ w.token = page[p].token /\ w.fb = page[p].fb
        /\ \A g \in Kept \ {fld} : w[g] = page[p][g]
    BY <1>1, <2>2 DEF PageRow, Kept, Fields, Switches
  <2>5. a \in AskedRow /\ a["token"] = asked[p]["token"] /\ a[fld] = v
        /\ \A g \in Kept \ {fld} : a[g] = asked[p][g]
    BY <2>2, <2>3 DEF AskedRow, Kept, Fields, Switches
  <2>6. asked' = [asked EXCEPT ![p] = a]
    BY <2>1 DEF Ask
  <2> HIDE DEF w, a
  <2>7. asked' \in [Rows -> AskedRow \cup {None}] /\ asked'[p] = a /\ \A r \in Rows \ {p} : asked'[r] = asked[r]
    BY <1>1, <2>5, <2>6 DEF PageTypes
  <2>8. page' \in [Rows -> PageRow \cup {None, Gone}] /\ page'[p] = w /\ \A r \in Rows \ {p} : page'[r] = page[r]
    BY <1>1, <2>1, <2>4 DEF PageTypes, w
  <2>9. /\ behind' \in [Clients -> SUBSET (Rows \X Fields)]
        /\ behindReq' \in [Clients -> SUBSET (Rows \X Fields)]
        /\ \A d \in Clients : behind[d] \subseteq behind'[d] /\ behindReq[d] \subseteq behindReq'[d]
        /\ \A d \in Clients : <<p, fld>> \in behind'[d] \cap behindReq'[d]
    <3>1. Each(p, {fld}) \subseteq Rows \X Fields /\ <<p, fld>> \in Each(p, {fld})
      BY <1>1, <2>3 DEF Each, Kept
    <3>2. /\ behind' = [d \in Clients |-> behind[d] \cup Each(p, {fld})]
          /\ behindReq' = [d \in Clients |-> behindReq[d] \cup Each(p, {fld})]
      BY <2>1 DEF Ask
    <3>3. QED
      BY <3>1, <3>2 DEF PageTypes
  <2>10. PageTypes' /\ Bounded'
    <3>1. req' \in [Clients -> Request]
      BY <1>0, IdleIsOK DEF PageTypes
    <3>2. QED
      BY <1>0, <2>7, <2>8, <2>9, <3>1 DEF PageTypes, Bounded
  <2>11. Registered(p)' /\ GetPage(p)' = [w EXCEPT !.token = Decrypt(key, w.token)]
    BY <1>0, <2>4, <2>8, PagesAssumption DEF GetPage, PageFromRow, PageRow, Registered
  <2>12. /\ GetPage(p)'.fb = page'[p].fb /\ GetPage(p)'.token = GetPage(p).token
         /\ \A g \in Kept : GetPage(p)'[g] = w[g]
    <3>1. GetPage(p).token = Decrypt(key, page[p].token)
      BY <1>1, <1>2, Read
    <3>2. QED
      BY <2>4, <2>8, <2>11, <3>1 DEF PageRow, Kept, Fields, Switches
  <2>13. ASSUME NEW r \in Rows
         PROVE  /\ page'[r] # None => asked'[r] \in AskedRow
                /\ Registered(r)' => PersonaExists(page[r].persona)'
                /\ Registered(r)' => AsAsked(GetPage(r), r, {})'
    <3>1. CASE r = p
      <4>1. AsAsked(GetPage(p), p, {}) /\ \A g \in Kept : GetPage(p)[g] = page[p][g]
        BY <1>1, <1>2, Read DEF RowsOK
      <4>2. PersonaExists(w.persona)
        BY <1>1, <1>2, <2>2, <2>4 DEF RowsOK, Kept, Fields
      <4>3. \A g \in Kept : w[g] # a[g] => <<p, g>> \in undone
        BY <1>2, <2>4, <2>5, <4>1 DEF AsAsked
      <4>4. p \notin doubtful => GetPage(p).token = asked[p]["token"]
        BY <1>2, <4>1 DEF AsAsked
      <4>5. AsAsked(GetPage(p), p, {})'
        BY <1>0, <2>5, <2>7, <2>12, <4>3, <4>4 DEF AsAsked
      <4>6. QED
        BY <1>0, <2>5, <2>7, <2>8, <3>1, <4>2, <4>5 DEF PersonaExists
    <3>2. CASE r # p
      BY <1>0, <2>7, <2>8, <3>2 DEF RowsOK, PersonaExists, AsAsked, GetPage, PageFromRow, Registered
    <3>3. QED
      BY <3>1, <3>2
  <2>14. RowsOK'
    BY <2>13 DEF RowsOK
  <2>15. \A r \in Rows : page[r] # None => page'[r] # None
    BY <2>8, <2>11 DEF Registered
  <2>16. ASSUME NEW r \in Rows, Registered(r)'
         PROVE  /\ Registered(r) /\ page'[r].fb = page[r].fb
                /\ asked'[r]["token"] = asked[r]["token"]
                /\ \A g \in Kept : asked'[r][g] # asked[r][g] =>
                     \A d \in Clients : <<r, g>> \in behind'[d] \cap behindReq'[d]
    <3>1. CASE r = p
      BY <1>2, <2>4, <2>5, <2>7, <2>8, <2>9, <3>1
    <3>2. CASE r # p
      BY <2>7, <2>8, <2>16, <3>2 DEF Registered
    <3>3. QED
      BY <3>1, <3>2
  <2>17. Lasting
    BY <1>0, <2>8, <2>11 DEF Lasting, Registered
  <2>18. \A d \in Clients : req'[d] = req[d] \/ req'[d] = Idle
    BY <1>0 DEF PageTypes
  <2>19. doubtful \subseteq doubtful' /\ undone \subseteq undone' /\ UNCHANGED listed
    BY <1>0
  <2>20. PagesInv'
    BY <2>9, <2>10, <2>14, <2>15, <2>16, <2>18, <2>19, RowStep
  <2>21. QED
    BY <2>17, <2>20
<1>3. CASE UNCHANGED <<page, asked, behind, behindReq>>
  BY <1>0, <1>3, IdleIsOK, RequestStep DEF tables, hist, Bounded
<1>4. QED
  BY <1>1, <1>2, <1>3 DEF Apply

(* The personas.                                                           *)
LEMMA CreateAIPersonaStep ==
  ASSUME PagesInv, NEW a \in Personas, CreateAIPersona(a) PROVE PagesInv' /\ Lasting
<1> USE DEF PagesInv
<1>1. /\ UNCHANGED <<page, key, listed, req, rekeys, faults, asked, behind, behindReq, undone, doubtful>>
      /\ personas' = personas \cup {a} /\ Bounded'
  BY PagesAssumption DEF CreateAIPersona, InsertAIPersona, Op, Bounded, requests, hist
<1>2. PageTypes' /\ RowsOK' /\ Lasting
  BY <1>1 DEF PageTypes, RowsOK, AsAsked, GetPage, PageFromRow, Registered, PersonaExists, Lasting
<1>3. ListsOK' /\ RequestsOK'
  BY <1>1 DEF ListsOK, RequestsOK, RequestOK, AsAsked, Registered
<1>4. QED
  BY <1>1, <1>2, <1>3

(* ON DELETE SET NULL is a change that was asked for.                      *)
LEMMA DeleteAIPersonaStep ==
  ASSUME PagesInv, NEW a \in Personas, DeleteAIPersona(a) PROVE PagesInv' /\ Lasting
<1> USE DEF PagesInv
<1> DEFINE Has == {p \in Rows : Registered(p) /\ page[p].persona = a}
<1>0. /\ UNCHANGED <<key, listed, req, rekeys, faults, undone, doubtful>>
      /\ personas' = personas \ {a} /\ Bounded'
      /\ page' = [p \in Rows |-> IF p \in Has THEN [page[p] EXCEPT !.persona = None] ELSE page[p]]
      /\ asked' = [p \in Rows |-> IF p \in Has THEN [asked[p] EXCEPT !["persona"] = None] ELSE asked[p]]
      /\ behind' = [c \in Clients |-> behind[c] \cup (Has \X {"persona"})]
      /\ behindReq' = [c \in Clients |-> behindReq[c] \cup (Has \X {"persona"})]
  BY PagesAssumption DEF DeleteAIPersona, RemoveAIPersona, Op, Bounded, requests
<1>1. Has \subseteq Rows
  OBVIOUS
<1>2. ASSUME NEW p \in Has
      PROVE  /\ page[p] \in PageRow /\ page'[p] \in PageRow
             /\ page'[p].persona = None /\ page'[p].fb = page[p].fb /\ page'[p].token = page[p].token
             /\ \A g \in Kept \ {"persona"} : page'[p][g] = page[p][g]
             /\ Registered(p) /\ Registered(p)'
  <2>1. page[p] \in PageRow /\ page'[p] = [page[p] EXCEPT !.persona = None]
    BY <1>0, <1>2 DEF PageTypes, Registered
  <2>2. page'[p] \in PageRow
    BY <2>1 DEF PageRow
  <2>3. QED
    BY <1>2, <2>1, <2>2, PagesAssumption DEF PageRow, Registered, Kept, Fields, Switches
<1>3. ASSUME NEW p \in Has
      PROVE  /\ asked'[p] \in AskedRow /\ asked'[p]["token"] = asked[p]["token"] /\ asked'[p]["persona"] = None
             /\ \A g \in Kept \ {"persona"} : asked'[p][g] = asked[p][g]
  <2>1. asked[p] \in AskedRow /\ asked'[p] = [asked[p] EXCEPT !["persona"] = None]
    BY <1>0, <1>3 DEF RowsOK, Registered
  <2>2. QED
    BY <2>1 DEF AskedRow, Kept, Fields, Switches, Values
<1>4. ASSUME NEW p \in Rows \ Has
      PROVE  page'[p] = page[p] /\ asked'[p] = asked[p] /\ Registered(p)' = Registered(p) /\ GetPage(p)' = GetPage(p)
             /\ (Registered(p) => page[p].persona # a)
  BY <1>0 DEF Registered, GetPage, PageFromRow
<1>5. /\ behind' \in [Clients -> SUBSET (Rows \X Fields)]
      /\ behindReq' \in [Clients -> SUBSET (Rows \X Fields)]
      /\ \A c \in Clients : behind[c] \subseteq behind'[c] /\ behindReq[c] \subseteq behindReq'[c]
      /\ \A c \in Clients, p \in Has : <<p, "persona">> \in behind'[c] \cap behindReq'[c]
  <2>1. Has \X {"persona"} \subseteq Rows \X Fields /\ \A p \in Has : <<p, "persona">> \in Has \X {"persona"}
    BY <1>1 DEF Fields
  <2>2. QED
    BY <1>0, <2>1 DEF PageTypes
<1> HIDE DEF Has
<1>6. PageTypes'
  <2>1. page' \in [Rows -> PageRow \cup {None, Gone}] /\ asked' \in [Rows -> AskedRow \cup {None}]
    <3>1. ASSUME NEW p \in Rows PROVE page'[p] \in PageRow \cup {None, Gone} /\ asked'[p] \in AskedRow \cup {None}
      BY <1>2, <1>3, <1>4 DEF PageTypes
    <3>2. QED
      BY <1>0, <3>1
  <2>2. QED
    BY <1>0, <1>5, <2>1 DEF PageTypes
<1>7. ASSUME NEW p \in Has PROVE AsAsked(GetPage(p), p, {})'
  <2>1. p \in Rows /\ GetPage(p).token = Decrypt(key, page[p].token) /\ AsAsked(GetPage(p), p, {})
        /\ \A g \in Kept : GetPage(p)[g] = page[p][g]
    BY <1>1, <1>2, Read DEF RowsOK
  <2>2. GetPage(p)' = [page'[p] EXCEPT !.token = Decrypt(key, page'[p].token)]
    BY <1>0, <1>2 DEF GetPage, PageFromRow, PageRow
  <2>3. /\ GetPage(p)'.fb = page'[p].fb /\ GetPage(p)'.token = GetPage(p).token
        /\ \A g \in Kept : GetPage(p)'[g] = page'[p][g]
    BY <1>2, <2>1, <2>2 DEF PageRow, Kept, Fields, Switches
  <2>4. p \notin doubtful => GetPage(p).token = asked[p]["token"]
    BY <1>2, <2>1 DEF AsAsked
  <2>5. ASSUME NEW g \in Kept, page'[p][g] # asked'[p][g] PROVE <<p, g>> \in undone
    <3>1. CASE g = "persona"
      BY <1>2, <1>3, <2>5, <3>1
    <3>2. CASE g # "persona"
      BY <1>2, <1>3, <2>1, <2>5, <3>2 DEF AsAsked
    <3>3. QED
      BY <3>1, <3>2
  <2>6. QED
    BY <1>0, <1>3, <2>3, <2>4, <2>5 DEF AsAsked
<1>8. ASSUME NEW p \in Rows
      PROVE  /\ page'[p] # None => asked'[p] \in AskedRow
             /\ Registered(p)' => PersonaExists(page[p].persona)'
             /\ Registered(p)' => AsAsked(GetPage(p), p, {})'
  <2>1. CASE p \in Has
    BY <1>2, <1>3, <1>7, <2>1 DEF PersonaExists
  <2>2. CASE p \notin Has
    BY <1>0, <1>4, <2>2 DEF RowsOK, PersonaExists, AsAsked
  <2>3. QED
    BY <2>1, <2>2
<1>9. RowsOK'
  BY <1>8 DEF RowsOK
<1>10. \A p \in Rows : page[p] # None => page'[p] # None
  BY <1>2, <1>4 DEF Registered
<1>11. ASSUME NEW p \in Rows, Registered(p)'
       PROVE  /\ Registered(p) /\ page'[p].fb = page[p].fb
              /\ asked'[p]["token"] = asked[p]["token"]
              /\ \A g \in Kept : asked'[p][g] # asked[p][g] =>
                   \A c \in Clients : <<p, g>> \in behind'[c] \cap behindReq'[c]
  <2>1. CASE p \in Has
    <3>1. \A g \in Kept : asked'[p][g] # asked[p][g] => g = "persona"
      BY <1>3, <2>1
    <3>2. QED
      BY <1>2, <1>3, <1>5, <2>1, <3>1
  <2>2. CASE p \notin Has
    BY <1>4, <1>11, <2>2
  <2>3. QED
    BY <2>1, <2>2
<1>12. Lasting
  BY <1>0, <1>2, <1>4 DEF Lasting
<1>13. PagesInv'
  BY <1>0, <1>5, <1>6, <1>9, <1>10, <1>11, RowStep
<1>14. QED
  BY <1>12, <1>13

(* A page that goes takes nothing else along here.                         *)
LEMMA DeletePageStep ==
  ASSUME PagesInv, NEW p \in Rows, DeletePage(p) PROVE PagesInv' /\ undone' = undone
<1> USE DEF PagesInv
<1>1. /\ UNCHANGED <<personas, key, listed, req, asked, behind, behindReq, undone, doubtful>>
      /\ page' = [page EXCEPT ![p] = Gone] /\ Bounded' /\ Registered(p)
  BY PagesAssumption DEF DeletePage, RemovePage, Op, Bounded, requests, hist
<1>2. page' \in [Rows -> PageRow \cup {None, Gone}] /\ page'[p] = Gone /\ \A r \in Rows \ {p} : page'[r] = page[r]
  BY <1>1 DEF PageTypes
<1>3. PageTypes'
  BY <1>1, <1>2 DEF PageTypes
<1>4. RowsOK'
  BY <1>1, <1>2 DEF RowsOK, AsAsked, GetPage, PageFromRow, Registered, PersonaExists
<1>5. \A r \in Rows : page[r] # None => page'[r] # None
  BY <1>2, PagesAssumption
<1>6. \A r \in Rows : Registered(r)' => r # p /\ Registered(r) /\ page'[r].fb = page[r].fb
  BY <1>2 DEF Registered
<1>7. QED
  BY <1>1, <1>3, <1>4, <1>5, <1>6, RowStep

(* Under another key only the tokens noted as doubtful are lost.           *)
LEMMA RestartStep ==
  ASSUME PagesInv, NEW k \in Keys \cup {None}, Restart(k) PROVE PagesInv' /\ Lasting
<1> USE DEF PagesInv
<1>1. /\ UNCHANGED <<page, personas, listed, ops, faults, asked, behind, behindReq, undone>>
      /\ key' = k /\ req' = [c \in Clients |-> Idle] /\ Bounded'
  BY PagesAssumption DEF Restart, Bounded
<1>2. PageTypes' /\ doubtful \subseteq doubtful'
  BY <1>1, IdleIsOK DEF PageTypes, Restart
<1>3. ASSUME NEW p \in Rows, Registered(p), p \notin doubtful' PROVE GetPage(p)'.token = asked[p]["token"]
  <2>1. /\ page[p] \in PageRow /\ GetPage(p).token = Decrypt(key, page[p].token)
        /\ GetPage(p).token = asked[p]["token"] /\ asked[p]["token"] \in Plain
    BY <1>2, <1>3, Read DEF RowsOK, AsAsked, AskedRow, Registered
  <2>2. GetPage(p)' = [page[p] EXCEPT !.token = Decrypt(k, page[p].token)]
    BY <1>1, <1>3, <2>1 DEF GetPage, PageFromRow, PageRow, Registered
  <2>3. GetPage(p)'.token = Decrypt(k, page[p].token)
    BY <2>1, <2>2 DEF PageRow
  <2>4. CASE key = k
    BY <2>1, <2>3, <2>4
  <2>5. CASE key # k /\ key = None
    <3>1. ~LooksSealed(page[p].token)
      BY <1>3, <2>5 DEF Restart
    <3>2. page[p].token = asked[p]["token"]
      BY <2>1, <2>5 DEF Decrypt
    <3>3. ~(Len(page[p].token) > 1)
      BY <3>1 DEF LooksSealed
    <3>4. Decrypt(k, page[p].token) = page[p].token
      BY <3>1, <3>3 DEF Decrypt
    <3>5. QED
      BY <2>3, <3>2, <3>4
  <2>6. CASE key # k /\ key # None
    BY <1>3, <2>6 DEF Restart
  <2>7. QED
    BY <2>4, <2>5, <2>6
<1>4. ASSUME NEW p \in Rows
      PROVE  /\ page'[p] # None => asked'[p] \in AskedRow
             /\ Registered(p)' => PersonaExists(page[p].persona)'
             /\ Registered(p)' => AsAsked(GetPage(p), p, {})'
  <2>1. ASSUME Registered(p)
        PROVE  GetPage(p)'.fb = page[p].fb /\ \A g \in Kept : GetPage(p)'[g] # asked[p][g] => <<p, g>> \in undone
    <3>1. page[p] \in PageRow /\ AsAsked(GetPage(p), p, {}) /\ \A g \in Kept : GetPage(p)[g] = page[p][g]
      BY <2>1, Read DEF RowsOK
    <3>2. GetPage(p)' = [page[p] EXCEPT !.token = Decrypt(k, page[p].token)]
      BY <1>1, <2>1, <3>1 DEF GetPage, PageFromRow, PageRow, Registered
    <3>3. GetPage(p)'.fb = page[p].fb /\ \A g \in Kept : GetPage(p)'[g] = page[p][g]
      BY <3>1, <3>2 DEF PageRow, Kept, Fields, Switches
    <3>4. QED
      BY <2>1, <3>1, <3>3 DEF AsAsked
  <2>2. Registered(p)' = Registered(p)
    BY <1>1 DEF Registered
  <2>3. QED
    BY <1>1, <1>3, <2>1, <2>2 DEF RowsOK, PersonaExists, AsAsked
<1>5. RowsOK'
  BY <1>4 DEF RowsOK
<1>6. \A p \in Rows : Registered(p)' = Registered(p)
  BY <1>1 DEF Registered
<1>7. Lasting
  BY <1>1, <1>6 DEF Lasting
<1>8. QED
  BY <1>1, <1>2, <1>5, <1>6, <1>7, RowStep

(* All requests about pages and personas.                                  *)
LEMMA RequestsStep ==
  ASSUME PagesInv, PageRequests PROVE PagesInv' /\ Lasting
<1>1. ASSUME NEW c \in Clients,
             List(c) \/ CreatePage(c) \/ Apply(c) \/ ReadForTouch(c) \/ TouchLastActive(c) \/ GiveUp(c)
      PROVE  PagesInv' /\ Lasting
  BY <1>1, ListStep, CreateStep, ApplyStep, ReadForTouchStep, TouchStep, GiveUpStep
<1>2. ASSUME NEW c \in Clients, NEW m \in NewPage, Add(c, m.fb, m) PROVE PagesInv' /\ Lasting
  BY <1>2, AddStep
<1>3. ASSUME NEW c \in Clients, NEW p \in Rows, NEW b \in BOOLEAN, Update(c, p, b) PROVE PagesInv' /\ Lasting
  BY <1>3, UpdateStep
<1>4. ASSUME NEW c \in Clients, NEW f \in FbPages, TestConnection(c, f) PROVE PagesInv' /\ Lasting
  BY <1>4, TestConnectionStep
<1>5. ASSUME NEW c \in Clients, NEW f \in FbPages, NEW b \in BOOLEAN, TogglePosting(c, f, b) \/ ToggleAI(c, f, b)
      PROVE  PagesInv' /\ Lasting
  <2>1. "posting" \in Fields /\ "ai" \in Fields /\ b \in Values
    BY DEF Fields, Switches, Values
  <2>2. QED
    BY <1>5, <2>1, FindStep DEF TogglePosting, ToggleAI
<1>6. ASSUME NEW c \in Clients, NEW f \in FbPages, NEW t \in Texts, UpdatePersona(c, f, t) PROVE PagesInv' /\ Lasting
  <2>1. "texts" \in Fields /\ t \in Values
    BY DEF Fields, Values
  <2>2. QED
    BY <1>6, <2>1, FindStep DEF UpdatePersona
<1>7. ASSUME NEW c \in Clients, NEW f \in FbPages, NEW a \in Personas \cup {None}, SetPagePersona(c, f, a)
      PROVE  PagesInv' /\ Lasting
  <2>1. "persona" \in Fields /\ a \in Values
    BY DEF Fields, Values
  <2>2. QED
    BY <1>7, <2>1, FindStep DEF SetPagePersona
<1>8. ASSUME NEW a \in Personas, CreateAIPersona(a) \/ DeleteAIPersona(a) PROVE PagesInv' /\ Lasting
  BY <1>8, CreateAIPersonaStep, DeleteAIPersonaStep
<1>9. QED
  BY <1>1, <1>2, <1>3, <1>4, <1>5, <1>6, <1>7, <1>8 DEF PageRequests

(* The invariants hold at first.                                           *)
LEMMA PagesAtFirst == PagesInit => PagesInv
<1> SUFFICES ASSUME PagesInit PROVE PagesInv
  OBVIOUS
<1>1. PageTypes
  BY IdleIsOK DEF PagesInit, PageTypes
<1>2. Bounded
  BY PagesAssumption DEF PagesInit, Bounded
<1>3. RowsOK /\ ListsOK
  BY DEF PagesInit, RowsOK, ListsOK, Registered
<1>4. RequestsOK
  BY IdleIsOK DEF PagesInit, RequestsOK
<1>5. QED
  BY <1>1, <1>2, <1>3, <1>4 DEF PagesInv

-----------------------------------------------------------------------------
(* The types of the variables of the queue.                                *)
Task == [at : {"idle", "rewrite", "lookUp", "check", "record", "mark"}, item : Items \cup {None},
         read : ItemRow \cup {None}, page : PageRow \cup {None}, off : BOOLEAN]

QueueTypes ==
  /\ item \in [Items -> ItemRow \cup {None, Gone}]
  /\ task \in [Publishers -> Task]
  /\ inHistory \in [Items -> Nat] /\ posts \in [Items -> Nat]
  /\ cut \subseteq Items /\ restated \subseteq Items /\ loud \subseteq Rows

(* A task's item has named the page of the task ever since, or none; the   *)
(* switch it has seen is the one asked for.                                *)
TaskOK(t) ==
  /\ t.at = "idle" => t = NoTask
  /\ t.at # "idle" =>
       /\ t.item \in Items /\ item[t.item] # None /\ t.read \in ItemRow
       /\ InQueue(t.item) /\ item[t.item].page # None => item[t.item].page = t.read.page
  /\ t.at \in {"check", "record", "mark"} => t.read.page \in Rows
  /\ t.at = "check" =>
       /\ t.page \in PageRow
       /\ t.off /\ t.page.posting => <<t.read.page, "posting">> \in undone
  /\ t.at \in {"record", "mark"} => posts[t.item] > 0

TasksOK == \A q \in Publishers : TaskOK(task[q])

(* Some request about item i is at one of the steps S.                     *)
AtStep(i, S) == \E q \in Publishers : task[q].item = i /\ task[q].at \in S

ItemsOK ==
  \A i \in Items :
    /\ item[i] = None => posts[i] = 0
    /\ InQueue(i) /\ item[i].page # None => Registered(item[i].page)
    /\ InQueue(i) /\ item[i].status = "PUBLISHED" => posts[i] > 0
    /\ InQueue(i) /\ posts[i] > 0 =>
         item[i].status = "PUBLISHED" \/ i \in cut \cup restated \/ AtStep(i, {"record", "mark"})

(* The requests that have posted item i and not yet recorded it.           *)
Recording(i) == {q \in Publishers : task[q].at = "record" /\ task[q].item = i}

(* Each post is in the history, about to be, or noted as cut.              *)
CountsOK ==
  \A i \in Items :
    /\ IsFiniteSet(Recording(i))
    /\ inHistory[i] + Cardinality(Recording(i)) <= posts[i]
    /\ InQueue(i) /\ item[i].page # None /\ i \notin cut =>
         posts[i] <= inHistory[i] + Cardinality(Recording(i))

(* The inductive invariant of the queue.                                   *)
QueueInv == QueueTypes /\ TasksOK /\ ItemsOK /\ CountsOK /\ SilentAfterSwitchOff

-----------------------------------------------------------------------------
(* A publisher without a request.                                          *)
LEMMA NoTaskIsOK == NoTask \in Task /\ NoTask.at = "idle" /\ TaskOK(NoTask)
  BY DEF NoTask, Task, TaskOK

(* A request about pages leaves the queue as it was.                       *)
LEMMA QueueStutter ==
  ASSUME QueueInv, UNCHANGED qvars, Lasting PROVE QueueInv'
<1> USE DEF QueueInv, qvars, queue, qhist
<1>1. QueueTypes' /\ CountsOK'
  BY DEF QueueTypes, CountsOK, Recording, InQueue
<1>2. TasksOK'
  BY DEF TasksOK, TaskOK, InQueue, Lasting
<1>3. ItemsOK'
  BY DEF ItemsOK, InQueue, AtStep, Lasting, QueueTypes, ItemRow
<1>4. SilentAfterSwitchOff'
  BY DEF SilentAfterSwitchOff, Lasting
<1>5. QED
  BY <1>1, <1>2, <1>3, <1>4

(* How a task's step moves the count of those about to write the history.  *)
LEMMA RecordingStep ==
  ASSUME QueueTypes, NEW q \in Publishers, NEW t \in Task, task' = [task EXCEPT ![q] = t],
         NEW i \in Items, IsFiniteSet(Recording(i))
  PROVE  /\ IsFiniteSet(Recording(i)')
         /\ Cardinality(Recording(i)) \in Nat /\ Cardinality(Recording(i)') \in Nat
         /\ q \notin Recording(i) /\ ~(t.at = "record" /\ t.item = i) =>
              Cardinality(Recording(i)') = Cardinality(Recording(i))
         /\ q \notin Recording(i) /\ t.at = "record" /\ t.item = i =>
              Cardinality(Recording(i)') = Cardinality(Recording(i)) + 1
         /\ q \in Recording(i) /\ t.at # "record" =>
              Cardinality(Recording(i)') = Cardinality(Recording(i)) - 1
<1>1. task'[q] = t /\ \A o \in Publishers \ {q} : task'[o] = task[o]
  BY DEF QueueTypes
<1>2. Recording(i)' = IF t.at = "record" /\ t.item = i THEN Recording(i) \cup {q} ELSE Recording(i) \ {q}
  BY <1>1 DEF Recording
<1>3. Recording(i)' = Recording(i) \cup {q} \/ Recording(i)' = Recording(i) \ {q}
  BY <1>2
<1>4. /\ IsFiniteSet(Recording(i) \cup {q}) /\ IsFiniteSet(Recording(i) \ {q})
      /\ Cardinality(Recording(i)) \in Nat
      /\ Cardinality(Recording(i) \cup {q}) =
           IF q \in Recording(i) THEN Cardinality(Recording(i)) ELSE Cardinality(Recording(i)) + 1
      /\ Cardinality(Recording(i) \ {q}) =
           IF q \in Recording(i) THEN Cardinality(Recording(i)) - 1 ELSE Cardinality(Recording(i))
  BY FS_AddElement, FS_RemoveElement, FS_CardinalityType
<1>5. IsFiniteSet(Recording(i)') /\ Cardinality(Recording(i)') \in Nat
  BY <1>3, <1>4, FS_CardinalityType
<1>6. ASSUME q \notin Recording(i), ~(t.at = "record" /\ t.item = i)
      PROVE  Cardinality(Recording(i)') = Cardinality(Recording(i))
  <2>1. Recording(i)' = Recording(i) \ {q}
    BY <1>2, <1>6
  <2>2. QED
    BY <1>4, <1>6, <2>1
<1>7. ASSUME q \notin Recording(i), t.at = "record", t.item = i
      PROVE  Cardinality(Recording(i)') = Cardinality(Recording(i)) + 1
  <2>1. Recording(i)' = Recording(i) \cup {q}
    BY <1>2, <1>7
  <2>2. QED
    BY <1>4, <1>7, <2>1
<1>8. ASSUME q \in Recording(i), t.at # "record"
      PROVE  Cardinality(Recording(i)') = Cardinality(Recording(i)) - 1
  <2>1. Recording(i)' = Recording(i) \ {q}
    BY <1>2, <1>8
  <2>2. QED
    BY <1>4, <1>8, <2>1
<1>9. QED
  BY <1>4, <1>5, <1>6, <1>7, <1>8

(* A task's step that leaves the items alone keeps the tasks in order.     *)
LEMMA TaskStep ==
  ASSUME TasksOK, QueueTypes, NEW q \in Publishers, NEW t, task' = [task EXCEPT ![q] = t], TaskOK(t)',
         UNCHANGED item, undone \subseteq undone', \A i \in Items : posts'[i] >= posts[i],
         posts' \in [Items -> Nat]
  PROVE  TasksOK'
<1>1. task'[q] = t /\ \A o \in Publishers \ {q} : task'[o] = task[o]
  BY DEF QueueTypes
<1>2. ASSUME NEW o \in Publishers PROVE TaskOK(task[o])'
  <2>1. CASE o = q
    BY <1>1, <2>1
  <2>2. CASE o # q
    <3>1. task'[o] = task[o] /\ TaskOK(task[o])
      BY <1>1, <2>2 DEF TasksOK
    <3>2. ASSUME NEW i \in Items, posts[i] > 0 PROVE posts'[i] > 0
      BY <3>2 DEF QueueTypes
    <3>3. QED
      BY <3>1, <3>2 DEF TaskOK, InQueue
  <2>3. QED
    BY <2>1, <2>2
<1>3. QED
  BY <1>2 DEF TasksOK

(* A new item has not been posted.                                         *)
LEMMA EnqueueStep ==
  ASSUME QueueInv, NEW i \in Items, Enqueue(i) PROVE QueueInv'
<1> USE DEF QueueInv
<1>1. PICK p \in {r \in Rows : Registered(r)} \cup {None} :
        item' = [item EXCEPT ![i] = [page |-> p, status |-> "REVIEW", original |-> TRUE]]
  BY DEF Enqueue
<1>2. item[i] = None /\ UNCHANGED <<page, undone, task, inHistory, posts, cut, loud, restated>>
  BY DEF Enqueue, pvars, tables, hist, qhist
<1> DEFINE w == [page |-> p, status |-> "REVIEW", original |-> TRUE]
<1>3. w \in ItemRow /\ w.page = p /\ w.status = "REVIEW"
  BY DEF ItemRow, Statuses
<1>4. item' \in [Items -> ItemRow \cup {None, Gone}] /\ item'[i] = w /\ \A j \in Items \ {i} : item'[j] = item[j]
  BY <1>1, <1>3 DEF QueueTypes
<1> HIDE DEF w
<1>5. QueueTypes'
  BY <1>2, <1>4 DEF QueueTypes
<1>6. w # None
  BY <1>3, QueueAssumption
<1>7. TasksOK'
  BY <1>2, <1>4, <1>6 DEF TasksOK, TaskOK, InQueue
<1>8. posts[i] = 0 /\ inHistory[i] \in Nat
  BY <1>2 DEF ItemsOK, QueueTypes
<1>9. ItemsOK'
  <2>1. ASSUME NEW j \in Items PROVE
           /\ item'[j] = None => posts'[j] = 0
           /\ InQueue(j)' /\ item'[j].page # None => Registered(item[j].page)'
           /\ InQueue(j)' /\ item'[j].status = "PUBLISHED" => posts'[j] > 0
           /\ InQueue(j)' /\ posts'[j] > 0 =>
                item'[j].status = "PUBLISHED" \/ j \in cut' \cup restated' \/ AtStep(j, {"record", "mark"})'
    <3>1. CASE j = i
      BY <1>2, <1>3, <1>4, <1>6, <1>8, <3>1 DEF Registered
    <3>2. CASE j # i
      BY <1>2, <1>4, <3>2 DEF ItemsOK, InQueue, Registered, AtStep
    <3>3. QED
      BY <3>1, <3>2
  <2>2. QED
    BY <2>1 DEF ItemsOK
<1>10. CountsOK'
  <2>1. ASSUME NEW j \in Items PROVE
           /\ IsFiniteSet(Recording(j)')
           /\ inHistory'[j] + Cardinality(Recording(j)') <= posts'[j]
           /\ InQueue(j)' /\ item'[j].page # None /\ j \notin cut' =>
                posts'[j] <= inHistory'[j] + Cardinality(Recording(j)')
    <3>1. Recording(j)' = Recording(j) /\ IsFiniteSet(Recording(j)) /\ Cardinality(Recording(j)) \in Nat
      BY <1>2, FS_CardinalityType DEF Recording, CountsOK
    <3>2. CASE j = i
      BY <1>2, <1>8, <3>1, <3>2 DEF CountsOK
    <3>3. CASE j # i
      BY <1>2, <1>4, <3>1, <3>3 DEF CountsOK, InQueue
    <3>4. QED
      BY <3>2, <3>3
  <2>2. QED
    BY <2>1 DEF CountsOK
<1>11. SilentAfterSwitchOff'
  BY <1>2 DEF SilentAfterSwitchOff
<1>12. QED
  BY <1>5, <1>7, <1>9, <1>10, <1>11

(* The items stay, or go; a page is only taken out of them.                *)
ItemsKept ==
  \A i \in Items :
    /\ item[i] # None => item'[i] # None
    /\ InQueue(i)' => InQueue(i) /\ item'[i].page \in {item[i].page, None}

(* Items that stay or go, and tasks that stay or end, keep them in order.  *)
LEMMA TasksKept ==
  ASSUME TasksOK, ItemsKept, undone \subseteq undone', UNCHANGED posts,
         \A q \in Publishers : task'[q] = task[q] \/ task'[q] = NoTask
  PROVE  TasksOK'
<1>1. ASSUME NEW q \in Publishers PROVE TaskOK(task[q])'
  <2>1. CASE task'[q] = NoTask
    BY <2>1 DEF TaskOK, NoTask
  <2>2. CASE task'[q] = task[q]
    BY <2>2 DEF TasksOK, TaskOK, ItemsKept
  <2>3. QED
    BY <1>1, <2>1, <2>2
<1>2. QED
  BY <1>1 DEF TasksOK

(* Cut requests and lost items keep the count of the posts.                *)
LEMMA CountsKept ==
  ASSUME QueueTypes, CountsOK, ItemsKept, UNCHANGED posts, cut \subseteq cut', inHistory' \in [Items -> Nat],
         \A i \in Items :
           /\ inHistory'[i] <= inHistory[i]
           /\ inHistory'[i] = inHistory[i] \/ (InQueue(i)' => item'[i].page = None)
           /\ IsFiniteSet(Recording(i)')
           /\ Cardinality(Recording(i)') <= Cardinality(Recording(i))
           /\ Cardinality(Recording(i)') = Cardinality(Recording(i)) \/ i \in cut'
  PROVE  CountsOK'
<1>1. ASSUME NEW i \in Items
      PROVE  /\ inHistory'[i] + Cardinality(Recording(i)') <= posts'[i]
             /\ InQueue(i)' /\ item'[i].page # None /\ i \notin cut' =>
                  posts'[i] <= inHistory'[i] + Cardinality(Recording(i)')
  <2>1. /\ inHistory[i] \in Nat /\ posts[i] \in Nat /\ inHistory'[i] \in Nat
        /\ Cardinality(Recording(i)) \in Nat /\ Cardinality(Recording(i)') \in Nat
    BY FS_CardinalityType DEF CountsOK, QueueTypes
  <2>2. InQueue(i)' /\ item'[i].page # None => InQueue(i) /\ item[i].page # None
    BY DEF ItemsKept
  <2>3. inHistory[i] + Cardinality(Recording(i)) <= posts[i]
        /\ (InQueue(i) /\ item[i].page # None /\ i \notin cut =>
              posts[i] <= inHistory[i] + Cardinality(Recording(i)))
    BY DEF CountsOK
  <2>4. inHistory'[i] + Cardinality(Recording(i)') <= posts'[i]
    BY <2>1, <2>3
  <2>5. ASSUME InQueue(i)', item'[i].page # None, i \notin cut'
        PROVE  posts'[i] <= inHistory'[i] + Cardinality(Recording(i)')
    <3>1. inHistory'[i] = inHistory[i] /\ Cardinality(Recording(i)') = Cardinality(Recording(i))
      BY <2>5
    <3>2. QED
      BY <2>1, <2>2, <2>3, <2>5, <3>1
  <2>6. QED
    BY <2>4, <2>5
<1>2. QED
  BY <1>1 DEF CountsOK

(* The row of one item is changed by hand, or goes.                        *)
LEMMA ItemStep ==
  ASSUME QueueInv, NEW i \in Items, NEW w \in ItemRow \cup {Gone}, InQueue(i),
         item' = [item EXCEPT ![i] = w],
         w # Gone => w.page = item[i].page /\ w.status # "PUBLISHED",
         w # Gone /\ posts[i] > 0 => i \in restated',
         restated \subseteq restated', restated' \subseteq Items,
         UNCHANGED <<page, undone, task, inHistory, posts, cut, loud>>
  PROVE  QueueInv'
<1> USE DEF QueueInv
<1>1. item' \in [Items -> ItemRow \cup {None, Gone}] /\ item'[i] = w /\ \A j \in Items \ {i} : item'[j] = item[j]
  BY DEF QueueTypes
<1>2. QueueTypes'
  BY <1>1 DEF QueueTypes
<1>3. w # None
  BY QueueAssumption, PagesAssumption
<1>4. ItemsKept
  BY <1>1, <1>3 DEF ItemsKept, InQueue
<1>5. TasksOK'
  BY <1>4, TasksKept
<1>6. \A j \in Items : Recording(j)' = Recording(j) /\ IsFiniteSet(Recording(j)) /\ Cardinality(Recording(j)) \in Nat
  BY FS_CardinalityType DEF Recording, CountsOK
<1>7. CountsOK'
  BY <1>4, <1>6, CountsKept DEF QueueTypes
<1>8. ASSUME NEW j \in Items PROVE
         /\ item'[j] = None => posts'[j] = 0
         /\ InQueue(j)' /\ item'[j].page # None => Registered(item[j].page)'
         /\ InQueue(j)' /\ item'[j].status = "PUBLISHED" => posts'[j] > 0
         /\ InQueue(j)' /\ posts'[j] > 0 =>
              item'[j].status = "PUBLISHED" \/ j \in cut' \cup restated' \/ AtStep(j, {"record", "mark"})'
  <2>1. CASE j = i
    BY <1>1, <1>3, <2>1 DEF ItemsOK, InQueue, Registered
  <2>2. CASE j # i
    BY <1>1, <2>2 DEF ItemsOK, InQueue, Registered, AtStep
  <2>3. QED
    BY <2>1, <2>2
<1>9. ItemsOK'
  BY <1>8 DEF ItemsOK
<1>10. SilentAfterSwitchOff'
  BY DEF SilentAfterSwitchOff
<1>11. QED
  BY <1>2, <1>5, <1>7, <1>9, <1>10

(* A status set by hand is noted as such.                                  *)
LEMMA UpdateStatusStep ==
  ASSUME QueueInv, NEW i \in Items, NEW s \in Statuses \ {"PUBLISHED"}, UpdateStatus(i, s) PROVE QueueInv'
<1> DEFINE w == [item[i] EXCEPT !.status = s]
<1>1. InQueue(i) /\ item' = [item EXCEPT ![i] = w]
      /\ restated' = (IF posts[i] > 0 THEN restated \cup {i} ELSE restated)
      /\ UNCHANGED <<page, undone, task, inHistory, posts, cut, loud>>
  BY DEF UpdateStatus, UpdateQueueStatus, tables, hist
<1>2. item[i] \in ItemRow
  BY <1>1 DEF QueueInv, QueueTypes, InQueue
<1>3. w \in ItemRow /\ w.page = item[i].page /\ w.status = s
  BY <1>2 DEF ItemRow
<1>4. restated \subseteq restated' /\ restated' \subseteq Items
  BY <1>1 DEF QueueInv, QueueTypes
<1>5. QED
  <2> HIDE DEF w
  <2>1. QED
    BY <1>1, <1>3, <1>4, ItemStep

(* An item that goes leaves the tasks about it alone.                      *)
LEMMA DeleteItemStep ==
  ASSUME QueueInv, NEW i \in Items, DeleteItem(i) PROVE QueueInv'
<1>1. InQueue(i) /\ item' = [item EXCEPT ![i] = Gone]
      /\ UNCHANGED <<page, undone, task, inHistory, posts, cut, loud, restated>>
  BY DEF DeleteItem, DeleteQueueItem, tables, hist, qhist
<1>2. QED
  BY <1>1, ItemStep DEF QueueInv, QueueTypes

(* Get: a request about an item begins.                                    *)
LEMMA StartStep ==
  ASSUME QueueInv, NEW q \in Publishers, NEW i \in Items, NEW s \in {"rewrite", "lookUp"},
         Start(q, i, s), UNCHANGED qhist
  PROVE  QueueInv'
<1> USE DEF QueueInv
<1>1. task[q] = NoTask /\ InQueue(i)
      /\ task' = [task EXCEPT ![q] = [NoTask EXCEPT !.at = s, !.item = i, !.read = item[i]]]
      /\ UNCHANGED <<page, undone, item, inHistory, posts, cut, loud, restated>>
  BY DEF Start, GetQueueItem, tables, hist, qhist
<1>2. item[i] \in ItemRow
  BY <1>1 DEF QueueTypes, InQueue
<1>3. PICK t \in Task : task' = [task EXCEPT ![q] = t] /\ t.at = s /\ t.item = i /\ t.read = item[i]
  <2> DEFINE n == [NoTask EXCEPT !.at = s, !.item = i, !.read = item[i]]
  <2>1. n \in Task /\ n.at = s /\ n.item = i /\ n.read = item[i]
    BY <1>2 DEF Task, NoTask
  <2>2. task' = [task EXCEPT ![q] = n]
    BY <1>1
  <2>3. QED
    <3> HIDE DEF n
    <3>1. QED
      BY <2>1, <2>2
<1>4. TaskOK(t)'
  BY <1>1, <1>2, <1>3 DEF TaskOK, InQueue
<1>5. TasksOK'
  <2>1. posts' \in [Items -> Nat] /\ \A j \in Items : posts'[j] >= posts[j]
    BY <1>1 DEF QueueTypes
  <2>2. QED
    BY <1>1, <1>3, <1>4, <2>1, TaskStep
<1>6. QueueTypes' /\ SilentAfterSwitchOff'
  BY <1>1, <1>3 DEF QueueTypes, SilentAfterSwitchOff
<1>7. \A j \in Items : /\ IsFiniteSet(Recording(j)') /\ Cardinality(Recording(j)) \in Nat
                       /\ Cardinality(Recording(j)') = Cardinality(Recording(j))
  <2>1. \A j \in Items : q \notin Recording(j) /\ IsFiniteSet(Recording(j))
    BY <1>1, NoTaskIsOK DEF Recording, CountsOK
  <2>2. QED
    BY <1>1, <1>3, <2>1, RecordingStep
<1>8. CountsOK'
  BY <1>1, <1>7, CountsKept DEF QueueTypes, ItemsKept, InQueue
<1>9. \A j \in Items : AtStep(j, {"record", "mark"}) => AtStep(j, {"record", "mark"})'
  BY <1>1 DEF AtStep, NoTask, QueueTypes
<1>10. ItemsOK'
  BY <1>1, <1>9 DEF ItemsOK, InQueue, Registered
<1>11. QED
  BY <1>5, <1>6, <1>8, <1>10

(* The switch that is read is the one asked for, or was undone.            *)
LEMMA LookUpPageStep ==
  ASSUME PagesInv, QueueInv, NEW q \in Publishers, LookUpPage(q) PROVE QueueInv'
<1> USE DEF QueueInv
<1>0. task[q].at = "lookUp" /\ UNCHANGED <<page, undone, item, inHistory, posts, cut, loud, restated>>
  BY DEF LookUpPage, pvars, tables, hist, qhist
<1>1. task[q] \in Task /\ TaskOK(task[q])
  BY DEF QueueTypes, TasksOK
<1>2. PICK t \in Task : task' = [task EXCEPT ![q] = t] /\ TaskOK(t) /\ t.at \in {"idle", "check"}
  <2>1. CASE Done(q)
    BY <2>1, NoTaskIsOK DEF Done
  <2>2. CASE ~Done(q)
    <3> DEFINE p == task[q].read.page
               t == [task[q] EXCEPT !.at = "check", !.page = GetPage(p), !.off = (asked[p]["posting"] = FALSE)]
    <3>1. p # None /\ Registered(p) /\ task' = [task EXCEPT ![q] = t]
      <4>1. p # None /\ Registered(p) /\ task' = [task EXCEPT ![q].at = "check", ![q].page = GetPage(p),
                               ![q].off = (asked[p]["posting"] = FALSE)]
        BY <2>2 DEF LookUpPage
      <4>2. QED
        BY <4>1 DEF QueueTypes
    <3>2. p \in Rows
      BY <1>0, <1>1, <3>1 DEF TaskOK, ItemRow
    <3>3. GetPage(p) \in PageRow /\ AsAsked(GetPage(p), p, {})
      BY <3>1, <3>2, Read DEF PagesInv, RowsOK
    <3>4. t \in Task /\ t.at = "check" /\ t.item = task[q].item /\ t.read = task[q].read
          /\ t.page = GetPage(p) /\ t.off = (asked[p]["posting"] = FALSE)
      <4>1. GetPage(p) \in PageRow \cup {None} /\ (asked[p]["posting"] = FALSE) \in BOOLEAN
        BY <3>3
      <4>2. QED
        BY <1>1, <4>1 DEF Task
    <3>5. GetPage(p).posting \in BOOLEAN /\ GetPage(p)["posting"] = GetPage(p).posting
      BY <3>3 DEF PageRow
    <3>6. t.off /\ t.page.posting => <<p, "posting">> \in undone
      BY <3>1, <3>3, <3>4, <3>5 DEF AsAsked, Kept, Fields, Switches
    <3>7. TaskOK(t)
      <4> HIDE DEF t
      <4>1. QED
        BY <1>0, <1>1, <3>2, <3>3, <3>4, <3>6 DEF TaskOK
    <3>8. QED
      <4> HIDE DEF t
      <4>1. QED
        BY <3>1, <3>4, <3>7
  <2>3. QED
    BY <2>1, <2>2
<1>3. TaskOK(t)'
  BY <1>0, <1>2 DEF TaskOK, InQueue
<1>4. TasksOK'
  <2>1. posts' \in [Items -> Nat] /\ \A j \in Items : posts'[j] >= posts[j]
    BY <1>0 DEF QueueTypes
  <2>2. QED
    BY <1>0, <1>2, <1>3, <2>1, TaskStep
<1>5. QueueTypes' /\ SilentAfterSwitchOff'
  BY <1>0, <1>2 DEF QueueTypes, SilentAfterSwitchOff
<1>6. \A j \in Items : /\ IsFiniteSet(Recording(j)') /\ Cardinality(Recording(j)) \in Nat
                       /\ Cardinality(Recording(j)') = Cardinality(Recording(j))
  <2>1. \A j \in Items : q \notin Recording(j) /\ IsFiniteSet(Recording(j))
    BY <1>0 DEF Recording, CountsOK
  <2>2. QED
    BY <1>2, <2>1, RecordingStep
<1>7. CountsOK'
  BY <1>0, <1>6, CountsKept DEF QueueTypes, ItemsKept, InQueue
<1>8. \A j \in Items : AtStep(j, {"record", "mark"}) => AtStep(j, {"record", "mark"})'
  BY <1>0, <1>2 DEF AtStep, QueueTypes
<1>9. ItemsOK'
  BY <1>0, <1>8 DEF ItemsOK, InQueue, Registered
<1>10. QED
  BY <1>4, <1>5, <1>7, <1>9

(* A task ends with a change of its item's row.                            *)
LEMMA EndStep ==
  ASSUME QueueInv, NEW q \in Publishers, task[q].at \in {"rewrite", "mark"}, Done(q),
         UNCHANGED <<page, undone, inHistory, posts, cut, loud, restated>>,
         \/ ~InQueue(task[q].item) /\ UNCHANGED item
         \/ /\ InQueue(task[q].item)
            /\ \E w \in ItemRow :
                 /\ item' = [item EXCEPT ![task[q].item] = w]
                 /\ w.page = item[task[q].item].page
                 /\ \/ task[q].at = "rewrite" /\ w.status = item[task[q].item].status
                    \/ task[q].at = "mark" /\ w.status = "PUBLISHED"
  PROVE  QueueInv'
<1> USE DEF QueueInv
<1>0. task' = [task EXCEPT ![q] = NoTask]
  BY DEF Done
<1>1. PICK i \in Items : i = task[q].item /\ (task[q].at = "mark" => posts[i] > 0)
  BY DEF TasksOK, TaskOK
<1>2. ASSUME NEW j \in Items
      PROVE  /\ IsFiniteSet(Recording(j)') /\ Cardinality(Recording(j)) \in Nat
             /\ Cardinality(Recording(j)') = Cardinality(Recording(j))
  <2>1. q \notin Recording(j) /\ IsFiniteSet(Recording(j))
    BY DEF Recording, CountsOK
  <2>2. QED
    BY <1>0, <2>1, RecordingStep, NoTaskIsOK
<1>3. ASSUME NEW j \in Items, j # i
      PROVE  AtStep(j, {"record", "mark"}) => AtStep(j, {"record", "mark"})'
  BY <1>0, <1>1, <1>3 DEF AtStep, QueueTypes
<1>4. \A o \in Publishers : task'[o] = task[o] \/ task'[o] = NoTask
  BY <1>0 DEF QueueTypes
<1>5. CASE ~InQueue(i) /\ UNCHANGED item
  <2>1. ItemsKept /\ QueueTypes' /\ SilentAfterSwitchOff'
    BY <1>0, <1>5, NoTaskIsOK DEF ItemsKept, InQueue, QueueTypes, SilentAfterSwitchOff
  <2>2. TasksOK'
    BY <1>4, <2>1, TasksKept
  <2>3. CountsOK'
    BY <1>2, <2>1, CountsKept DEF QueueTypes
  <2>4. ItemsOK'
    BY <1>3, <1>5 DEF ItemsOK, InQueue, Registered
  <2>5. QED
    BY <2>1, <2>2, <2>3, <2>4
<1>6. ASSUME InQueue(i), NEW w \in ItemRow, item' = [item EXCEPT ![i] = w], w.page = item[i].page,
             \/ task[q].at = "rewrite" /\ w.status = item[i].status
             \/ task[q].at = "mark" /\ w.status = "PUBLISHED"
      PROVE  QueueInv'
  <2>0. item' \in [Items -> ItemRow \cup {None, Gone}] /\ item'[i] = w /\ \A j \in Items \ {i} : item'[j] = item[j]
    BY <1>6 DEF QueueTypes
  <2>1. ItemsKept /\ QueueTypes' /\ SilentAfterSwitchOff'
    BY <1>0, <1>6, <2>0, NoTaskIsOK, QueueAssumption DEF ItemsKept, InQueue, QueueTypes, SilentAfterSwitchOff
  <2>2. TasksOK'
    BY <1>4, <2>1, TasksKept
  <2>3. CountsOK'
    BY <1>2, <2>1, CountsKept DEF QueueTypes
  <2>4. task[q].at = "rewrite" => (AtStep(i, {"record", "mark"}) => AtStep(i, {"record", "mark"})')
    BY <1>0 DEF AtStep, QueueTypes
  <2>5. ASSUME NEW j \in Items PROVE
           /\ item'[j] = None => posts'[j] = 0
           /\ InQueue(j)' /\ item'[j].page # None => Registered(item[j].page)'
           /\ InQueue(j)' /\ item'[j].status = "PUBLISHED" => posts'[j] > 0
           /\ InQueue(j)' /\ posts'[j] > 0 =>
                item'[j].status = "PUBLISHED" \/ j \in cut' \cup restated' \/ AtStep(j, {"record", "mark"})'
    <3>1. CASE j = i
      BY <1>1, <1>6, <2>0, <2>4, <3>1, QueueAssumption DEF ItemsOK, InQueue, Registered
    <3>2. CASE j # i
      BY <1>3, <2>0, <3>2 DEF ItemsOK, InQueue, Registered
    <3>3. QED
      BY <3>1, <3>2
  <2>6. ItemsOK'
    BY <2>5 DEF ItemsOK
  <2>7. QED
    BY <2>1, <2>2, <2>3, <2>6
<1>7. QED
  BY <1>1, <1>5, <1>6

(* RegenerateContent's statement.                                          *)
LEMMA RewriteStep ==
  ASSUME QueueInv, NEW q \in Publishers, Rewrite(q) PROVE QueueInv'
<1> DEFINE w == [item[task[q].item] EXCEPT !.original = FALSE]
<1>1. task[q].at = "rewrite" /\ Done(q) /\ UNCHANGED <<page, undone, inHistory, posts, cut, loud, restated>>
  BY DEF Rewrite, pvars, tables, hist, qhist
<1>2. CASE ~InQueue(task[q].item)
  <2>1. UNCHANGED item
    BY <1>2 DEF Rewrite, UpdateQueueContent
  <2>2. QED
    BY <1>1, <1>2, <2>1, EndStep
<1>3. CASE InQueue(task[q].item)
  <2>1. item[task[q].item] \in ItemRow
    BY <1>1, <1>3 DEF QueueInv, QueueTypes, TasksOK, TaskOK, InQueue
  <2>2. w \in ItemRow /\ w.page = item[task[q].item].page /\ w.status = item[task[q].item].status
    BY <2>1 DEF ItemRow
  <2>3. item' = [item EXCEPT ![task[q].item] = w]
    BY <1>3 DEF Rewrite, UpdateQueueContent
  <2>4. QED
    <3> HIDE DEF w
    <3>1. QED
      BY <1>1, <1>3, <2>2, <2>3, EndStep
<1>4. QED
  BY <1>2, <1>3

(* PublishNow's last statement: the item has been posted.                  *)
LEMMA MarkPublishedStep ==
  ASSUME QueueInv, NEW q \in Publishers, MarkPublished(q) PROVE QueueInv'
<1> DEFINE w == [item[task[q].item] EXCEPT !.status = "PUBLISHED"]
<1>1. task[q].at = "mark" /\ Done(q) /\ UNCHANGED <<page, undone, inHistory, posts, cut, loud, restated>>
  BY DEF MarkPublished, pvars, tables, hist, qhist
<1>2. CASE ~InQueue(task[q].item)
  <2>1. UNCHANGED item
    BY <1>2 DEF MarkPublished, UpdateQueueStatus
  <2>2. QED
    BY <1>1, <1>2, <2>1, EndStep
<1>3. CASE InQueue(task[q].item)
  <2>1. item[task[q].item] \in ItemRow
    BY <1>1, <1>3 DEF QueueInv, QueueTypes, TasksOK, TaskOK, InQueue
  <2>2. w \in ItemRow /\ w.page = item[task[q].item].page /\ w.status = "PUBLISHED"
    BY <2>1 DEF ItemRow, Statuses
  <2>3. item' = [item EXCEPT ![task[q].item] = w]
    BY <1>3 DEF MarkPublished, UpdateQueueStatus
  <2>4. QED
    <3> HIDE DEF w
    <3>1. QED
      BY <1>1, <1>3, <2>2, <2>3, EndStep
<1>4. QED
  BY <1>2, <1>3

(* The Graph call: a post is on its way into the history, or cut.          *)
LEMMA PostStep ==
  ASSUME QueueInv, NEW q \in Publishers, Post(q) PROVE QueueInv'
<1> USE DEF QueueInv
<1>0. task[q].at = "check" /\ UNCHANGED <<page, undone, item, inHistory, restated>>
  BY DEF Post, tables, hist
<1>1. task[q] \in Task /\ TaskOK(task[q])
  BY DEF QueueTypes, TasksOK
<1>2. PICK i \in Items, p \in Rows :
        /\ i = task[q].item /\ p = task[q].read.page /\ item[i] # None
        /\ task[q].off /\ task[q].page.posting => <<p, "posting">> \in undone
  BY <1>0, <1>1 DEF TaskOK
<1>3. \A j \in Items : q \notin Recording(j) /\ IsFiniteSet(Recording(j))
  BY <1>0 DEF Recording, CountsOK
<1>4. ASSUME MayPublish(task[q].page), posts' = [posts EXCEPT ![i] = @ + 1],
             loud' = IF task[q].off THEN loud \cup {p} ELSE loud,
             NEW t \in Task, task' = [task EXCEPT ![q] = t], TaskOK(t)',
             \/ t.at = "record" /\ t.item = i /\ UNCHANGED cut
             \/ t.at = "idle" /\ cut' = cut \cup {i}
      PROVE  QueueInv'
  <2>1. /\ posts' \in [Items -> Nat] /\ posts'[i] = posts[i] + 1
        /\ \A j \in Items \ {i} : posts'[j] = posts[j]
        /\ posts[i] \in Nat
    BY <1>4 DEF QueueTypes
  <2>2. SilentAfterSwitchOff'
    BY <1>0, <1>2, <1>4 DEF SilentAfterSwitchOff, MayPublish
  <2>3. QueueTypes'
    BY <1>0, <1>4, <2>1 DEF QueueTypes
  <2>4. TasksOK'
    <3>1. \A j \in Items : posts'[j] >= posts[j]
      BY <2>1 DEF QueueTypes
    <3>2. QED
      BY <1>0, <1>4, <2>1, <3>1, TaskStep
  <2>5. task'[q] = t /\ \A o \in Publishers \ {q} : task'[o] = task[o]
    BY <1>4 DEF QueueTypes
  <2>6. \A j \in Items : AtStep(j, {"record", "mark"}) => AtStep(j, {"record", "mark"})'
    BY <1>0, <2>5 DEF AtStep
  <2>7. t.at = "record" => AtStep(i, {"record", "mark"})'
    BY <1>4, <2>5 DEF AtStep
  <2>8. ASSUME NEW j \in Items PROVE
           /\ item'[j] = None => posts'[j] = 0
           /\ InQueue(j)' /\ item'[j].page # None => Registered(item[j].page)'
           /\ InQueue(j)' /\ item'[j].status = "PUBLISHED" => posts'[j] > 0
           /\ InQueue(j)' /\ posts'[j] > 0 =>
                item'[j].status = "PUBLISHED" \/ j \in cut' \cup restated' \/ AtStep(j, {"record", "mark"})'
    <3>1. CASE j = i
      BY <1>0, <1>2, <1>4, <2>1, <2>7, <3>1 DEF ItemsOK, InQueue, Registered
    <3>2. CASE j # i
      BY <1>0, <1>4, <2>1, <2>6, <3>2 DEF ItemsOK, InQueue, Registered
    <3>3. QED
      BY <3>1, <3>2
  <2>9. ItemsOK'
    BY <2>8 DEF ItemsOK
  <2>10. ASSUME NEW j \in Items PROVE
           /\ IsFiniteSet(Recording(j)')
           /\ inHistory'[j] + Cardinality(Recording(j)') <= posts'[j]
           /\ InQueue(j)' /\ item'[j].page # None /\ j \notin cut' =>
                posts'[j] <= inHistory'[j] + Cardinality(Recording(j)')
    <3>0. /\ inHistory'[j] = inHistory[j] /\ inHistory[j] \in Nat /\ posts[j] \in Nat
          /\ inHistory[j] + Cardinality(Recording(j)) <= posts[j]
          /\ InQueue(j) /\ item[j].page # None /\ j \notin cut =>
               posts[j] <= inHistory[j] + Cardinality(Recording(j))
          /\ InQueue(j)' = InQueue(j) /\ item' = item
      BY <1>0 DEF CountsOK, QueueTypes, InQueue
    <3>1. CASE t.at = "record" /\ j = i
      <4>1. IsFiniteSet(Recording(j)') /\ Cardinality(Recording(j)) \in Nat
            /\ Cardinality(Recording(j)') = Cardinality(Recording(j)) + 1 /\ cut' = cut
        BY <1>3, <1>4, <3>1, RecordingStep
      <4>2. QED
        BY <2>1, <3>0, <3>1, <4>1
    <3>2. CASE ~(t.at = "record" /\ j = i)
      <4>1. IsFiniteSet(Recording(j)') /\ Cardinality(Recording(j)) \in Nat
            /\ Cardinality(Recording(j)') = Cardinality(Recording(j))
        BY <1>3, <1>4, <3>2, RecordingStep
      <4>2. posts'[j] = posts[j] \/ (j = i /\ posts'[j] = posts[j] + 1 /\ i \in cut')
        BY <1>4, <2>1, <3>2
      <4>3. cut \subseteq cut'
        BY <1>4
      <4>4. QED
        BY <3>0, <4>1, <4>2, <4>3
    <3>3. QED
      BY <3>1, <3>2
  <2>11. CountsOK'
    BY <2>10 DEF CountsOK
  <2>12. QED
    BY <2>2, <2>3, <2>4, <2>9, <2>11
<1>5. CASE /\ MayPublish(task[q].page) /\ posts' = [posts EXCEPT ![i] = @ + 1]
           /\ loud' = IF task[q].off THEN loud \cup {p} ELSE loud
           /\ task' = [task EXCEPT ![q].at = "record"] /\ UNCHANGED cut
  <2>1. PICK t \in Task : task' = [task EXCEPT ![q] = t] /\ t.at = "record" /\ t.item = i /\ t.read = task[q].read
    <3> DEFINE n == [task[q] EXCEPT !.at = "record"]
    <3>1. n \in Task /\ n.at = "record" /\ n.item = i /\ n.read = task[q].read
      BY <1>1, <1>2 DEF Task
    <3>2. task' = [task EXCEPT ![q] = n]
      BY <1>5
    <3>3. QED
      <4> HIDE DEF n
      <4>1. QED
        BY <3>1, <3>2
  <2>2. posts'[i] > 0
    BY <1>5 DEF QueueTypes
  <2>3. TaskOK(t)'
    BY <1>0, <1>1, <1>2, <2>1, <2>2 DEF TaskOK, InQueue
  <2>4. QED
    BY <1>4, <1>5, <2>1, <2>3
<1>6. CASE /\ MayPublish(task[q].page) /\ posts' = [posts EXCEPT ![i] = @ + 1]
           /\ loud' = IF task[q].off THEN loud \cup {p} ELSE loud
           /\ Done(q) /\ cut' = cut \cup {i}
  <2>1. TaskOK(NoTask)'
    BY DEF TaskOK, NoTask
  <2>2. QED
    BY <1>4, <1>6, <2>1, NoTaskIsOK DEF Done
<1>7. CASE Done(q) /\ UNCHANGED <<posts, cut, loud>>
  <2>1. ItemsKept /\ QueueTypes' /\ SilentAfterSwitchOff'
    BY <1>0, <1>7, NoTaskIsOK DEF Done, ItemsKept, InQueue, QueueTypes, SilentAfterSwitchOff
  <2>2. \A o \in Publishers : task'[o] = task[o] \/ task'[o] = NoTask
    BY <1>7 DEF Done, QueueTypes
  <2>3. TasksOK'
    BY <1>0, <1>7, <2>1, <2>2, TasksKept
  <2>4. \A j \in Items : /\ IsFiniteSet(Recording(j)') /\ Cardinality(Recording(j)) \in Nat
                         /\ Cardinality(Recording(j)') = Cardinality(Recording(j))
    BY <1>3, <1>7, RecordingStep, NoTaskIsOK DEF Done
  <2>5. CountsOK'
    BY <1>0, <1>7, <2>1, <2>4, CountsKept DEF QueueTypes
  <2>6. \A j \in Items : AtStep(j, {"record", "mark"}) => AtStep(j, {"record", "mark"})'
    BY <1>0, <1>7 DEF AtStep, Done, QueueTypes
  <2>7. ItemsOK'
    BY <1>0, <1>7, <2>6 DEF ItemsOK, InQueue, Registered
  <2>8. QED
    BY <2>1, <2>3, <2>5, <2>7
<1>8. QED
  BY <1>2, <1>5, <1>6, <1>7 DEF Post, Refused

(* The history row: a page that is gone was taken out of the item.         *)
LEMMA RecordStep ==
  ASSUME QueueInv, NEW q \in Publishers, Record(q) PROVE QueueInv'
<1> USE DEF QueueInv
<1>0. task[q].at = "record" /\ UNCHANGED <<page, undone, item, posts, loud, restated>>
  BY DEF Record, tables, hist
<1>1. task[q] \in Task /\ TaskOK(task[q])
  BY DEF QueueTypes, TasksOK
<1>2. PICK i \in Items, p \in Rows : i = task[q].item /\ p = task[q].read.page
  BY <1>0, <1>1 DEF TaskOK
<1>3. PICK t \in Task : task' = [task EXCEPT ![q] = t] /\ t.at = "mark" /\ t.item = i /\ t.read = task[q].read
  <2> DEFINE n == [task[q] EXCEPT !.at = "mark"]
  <2>1. n \in Task /\ n.at = "mark" /\ n.item = i /\ n.read = task[q].read
    BY <1>1, <1>2 DEF Task
  <2>2. task' = [task EXCEPT ![q] = n]
    BY DEF Record
  <2>3. QED
    <3> HIDE DEF n
    <3>1. QED
      BY <2>1, <2>2
<1>4. TaskOK(t)'
  BY <1>0, <1>1, <1>2, <1>3 DEF TaskOK, InQueue
<1>5. TasksOK'
  <2>1. posts' \in [Items -> Nat] /\ \A j \in Items : posts'[j] >= posts[j]
    BY <1>0 DEF QueueTypes
  <2>2. QED
    BY <1>0, <1>3, <1>4, <2>1, TaskStep
<1>6. \/ inHistory' = [inHistory EXCEPT ![i] = @ + 1] /\ UNCHANGED cut
      \/ ~Registered(p) /\ UNCHANGED <<inHistory, cut>>
      \/ cut' = cut \cup {i} /\ UNCHANGED inHistory
  BY <1>2 DEF Record, InsertPostHistory
<1>7. inHistory' \in [Items -> Nat] /\ cut \subseteq cut' /\ cut' \subseteq Items
  BY <1>6 DEF QueueTypes
<1>8. QueueTypes' /\ SilentAfterSwitchOff'
  BY <1>0, <1>3, <1>7 DEF QueueTypes, SilentAfterSwitchOff
<1>9. \A j \in Items : AtStep(j, {"record", "mark"}) => AtStep(j, {"record", "mark"})'
  <2>1. task'[q] = t /\ \A o \in Publishers \ {q} : task'[o] = task[o]
    BY <1>3 DEF QueueTypes
  <2>2. QED
    BY <1>2, <1>3, <2>1 DEF AtStep
<1>10. ItemsOK'
  BY <1>0, <1>7, <1>9 DEF ItemsOK, InQueue, Registered
<1>11. ASSUME NEW j \in Items PROVE
         /\ IsFiniteSet(Recording(j)')
         /\ inHistory'[j] + Cardinality(Recording(j)') <= posts'[j]
         /\ InQueue(j)' /\ item'[j].page # None /\ j \notin cut' =>
              posts'[j] <= inHistory'[j] + Cardinality(Recording(j)')
  <2>0. /\ posts'[j] = posts[j] /\ inHistory[j] \in Nat /\ posts[j] \in Nat
        /\ IsFiniteSet(Recording(j))
        /\ inHistory[j] + Cardinality(Recording(j)) <= posts[j]
        /\ InQueue(j) /\ item[j].page # None /\ j \notin cut =>
             posts[j] <= inHistory[j] + Cardinality(Recording(j))
        /\ InQueue(j)' = InQueue(j) /\ item' = item
    BY <1>0 DEF CountsOK, QueueTypes, InQueue
  <2>1. CASE j # i
    <3>1. q \notin Recording(j)
      BY <1>2, <2>1 DEF Recording
    <3>2. IsFiniteSet(Recording(j)') /\ Cardinality(Recording(j)) \in Nat
          /\ Cardinality(Recording(j)') = Cardinality(Recording(j))
      BY <1>3, <2>0, <3>1, RecordingStep
    <3>3. inHistory'[j] = inHistory[j]
      BY <1>6, <2>1 DEF QueueTypes
    <3>4. QED
      BY <1>7, <2>0, <3>2, <3>3
  <2>2. CASE j = i
    <3>1. q \in Recording(i)
      BY <1>0, <1>2 DEF Recording
    <3>2. IsFiniteSet(Recording(i)') /\ Cardinality(Recording(i)) \in Nat /\ Cardinality(Recording(i)') \in Nat
          /\ Cardinality(Recording(i)') = Cardinality(Recording(i)) - 1
      BY <1>3, <2>0, <2>2, <3>1, RecordingStep
    <3>3. CASE inHistory' = [inHistory EXCEPT ![i] = @ + 1] /\ UNCHANGED cut
      <4>1. inHistory'[i] = inHistory[i] + 1
        BY <3>3 DEF QueueTypes
      <4>2. QED
        BY <2>0, <2>2, <3>2, <3>3, <4>1
    <3>4. CASE ~Registered(p) /\ UNCHANGED <<inHistory, cut>>
      <4>1. InQueue(i) => item[i].page = None
        BY <1>0, <1>1, <1>2, <3>4 DEF TaskOK, ItemsOK
      <4>2. QED
        BY <2>0, <2>2, <3>2, <3>4, <4>1
    <3>5. CASE cut' = cut \cup {i} /\ UNCHANGED inHistory
      BY <2>0, <2>2, <3>2, <3>5
    <3>6. QED
      BY <1>6, <3>3, <3>4, <3>5
  <2>3. QED
    BY <2>1, <2>2
<1>12. CountsOK'
  BY <1>11 DEF CountsOK
<1>13. QED
  BY <1>5, <1>8, <1>10, <1>12

(* A request cut short behind its post is noted as cut.                    *)
LEMMA GiveUpTaskStep ==
  ASSUME QueueInv, NEW q \in Publishers, GiveUpTask(q) PROVE QueueInv'
<1> USE DEF QueueInv
<1>0. task' = [task EXCEPT ![q] = NoTask] /\ cut' = cut \cup Unfinished({q})
      /\ UNCHANGED <<page, undone, item, inHistory, posts, loud, restated>>
  BY DEF GiveUpTask, Done, tables, hist
<1>1. \A i : i \in Unfinished({q}) <=> task[q].at \in {"record", "mark"} /\ i = task[q].item
  BY DEF Unfinished
<1>2. cut \subseteq cut' /\ cut' \subseteq Items
  <2>1. task[q].at \in {"record", "mark"} => task[q].item \in Items
    BY DEF TasksOK, TaskOK
  <2>2. cut \subseteq Items
    BY DEF QueueTypes
  <2>3. QED
    BY <1>0, <1>1, <2>1, <2>2
<1>3. ItemsKept /\ QueueTypes' /\ SilentAfterSwitchOff'
  BY <1>0, <1>2, NoTaskIsOK DEF ItemsKept, InQueue, QueueTypes, SilentAfterSwitchOff
<1>4. \A o \in Publishers : task'[o] = task[o] \/ task'[o] = NoTask
  BY <1>0 DEF QueueTypes
<1>5. TasksOK'
  BY <1>0, <1>3, <1>4, TasksKept
<1>6. ASSUME NEW j \in Items
      PROVE  /\ IsFiniteSet(Recording(j)')
             /\ Cardinality(Recording(j)') <= Cardinality(Recording(j))
             /\ Cardinality(Recording(j)') = Cardinality(Recording(j)) \/ j \in cut'
  <2>1. IsFiniteSet(Recording(j)) /\ (q \in Recording(j) => j \in cut')
    BY <1>0, <1>1 DEF CountsOK, Recording
  <2>2. CASE q \in Recording(j)
    <3>1. /\ IsFiniteSet(Recording(j)') /\ Cardinality(Recording(j)) \in Nat
          /\ Cardinality(Recording(j)') = Cardinality(Recording(j)) - 1
      BY <1>0, <2>1, <2>2, RecordingStep, NoTaskIsOK
    <3>2. QED
      BY <2>1, <2>2, <3>1
  <2>3. CASE q \notin Recording(j)
    <3>1. /\ IsFiniteSet(Recording(j)') /\ Cardinality(Recording(j)) \in Nat
          /\ Cardinality(Recording(j)') = Cardinality(Recording(j))
      BY <1>0, <2>1, <2>3, RecordingStep, NoTaskIsOK
    <3>2. QED
      BY <3>1
  <2>4. QED
    BY <2>2, <2>3
<1>7. CountsOK'
  BY <1>0, <1>2, <1>3, <1>6, CountsKept, SMTT(30) DEF QueueTypes
<1>8. \A j \in Items : AtStep(j, {"record", "mark"}) => AtStep(j, {"record", "mark"})' \/ j \in cut'
  BY <1>0, <1>1 DEF AtStep, QueueTypes
<1>9. ItemsOK'
  BY <1>0, <1>2, <1>8 DEF ItemsOK, InQueue, Registered
<1>10. QED
  BY <1>3, <1>5, <1>7, <1>9

(* Both cascades of a deleted page.                                        *)
LEMMA DropPageStep ==
  ASSUME QueueInv, NEW p \in Rows, DropPage(p), undone' = undone PROVE QueueInv'
<1> USE DEF QueueInv
<1>0. /\ page' = [page EXCEPT ![p] = Gone]
      /\ item' = [i \in Items |-> IF InQueue(i) /\ item[i].page = p
                                  THEN [item[i] EXCEPT !.page = None] ELSE item[i]]
      /\ inHistory' = [i \in Items |-> IF InQueue(i) /\ item[i].page = p THEN 0 ELSE inHistory[i]]
      /\ UNCHANGED <<task, posts, cut, loud, restated>>
  BY DEF DropPage, DeletePage, RemovePage, qhist
<1>1. ASSUME NEW i \in Items
      PROVE  \/ item'[i] = item[i] /\ inHistory'[i] = inHistory[i] /\ (InQueue(i) => item[i].page # p)
             \/ /\ InQueue(i) /\ item'[i] \in ItemRow /\ item'[i].page = None
                /\ item'[i].status = item[i].status /\ inHistory'[i] = 0
  <2>1. CASE InQueue(i) /\ item[i].page = p
    <3>1. item[i] \in ItemRow /\ item'[i] = [item[i] EXCEPT !.page = None] /\ inHistory'[i] = 0
      BY <1>0, <2>1 DEF QueueTypes, InQueue
    <3>2. QED
      BY <2>1, <3>1 DEF ItemRow
  <2>2. CASE ~(InQueue(i) /\ item[i].page = p)
    BY <1>0, <2>2
  <2>3. QED
    BY <2>1, <2>2
<1>2. item' \in [Items -> ItemRow \cup {None, Gone}] /\ inHistory' \in [Items -> Nat]
  <2>1. ASSUME NEW i \in Items PROVE item'[i] \in ItemRow \cup {None, Gone} /\ inHistory'[i] \in Nat
    BY <1>1 DEF QueueTypes
  <2>2. QED
    BY <1>0, <2>1
<1>3. QueueTypes' /\ SilentAfterSwitchOff'
  BY <1>0, <1>2 DEF QueueTypes, SilentAfterSwitchOff
<1>4. ItemsKept
  BY <1>1, QueueAssumption DEF ItemsKept, InQueue
<1>5. TasksOK'
  BY <1>0, <1>4, TasksKept
<1>6. \A j \in Items : Recording(j)' = Recording(j) /\ IsFiniteSet(Recording(j)) /\ Cardinality(Recording(j)) \in Nat
  BY <1>0, FS_CardinalityType DEF Recording, CountsOK
<1>7. \A j \in Items : inHistory'[j] <= inHistory[j]
                       /\ (inHistory'[j] = inHistory[j] \/ (InQueue(j)' => item'[j].page = None))
  BY <1>1 DEF QueueTypes
<1>8. CountsOK'
  BY <1>0, <1>2, <1>4, <1>6, <1>7, CountsKept
<1>9. \A r \in Rows : r # p /\ Registered(r) => Registered(r)'
  BY <1>0 DEF Registered
<1>10. ASSUME NEW j \in Items PROVE
         /\ item'[j] = None => posts'[j] = 0
         /\ InQueue(j)' /\ item'[j].page # None => Registered(item[j].page)'
         /\ InQueue(j)' /\ item'[j].status = "PUBLISHED" => posts'[j] > 0
         /\ InQueue(j)' /\ posts'[j] > 0 =>
              item'[j].status = "PUBLISHED" \/ j \in cut' \cup restated' \/ AtStep(j, {"record", "mark"})'
  <2>1. CASE item'[j] = item[j] /\ (InQueue(j) => item[j].page # p)
    <3>1. InQueue(j) /\ item[j].page # None => item[j].page \in Rows
      BY DEF InQueue, QueueTypes, ItemRow
    <3>2. InQueue(j)' = InQueue(j) /\ AtStep(j, {"record", "mark"})' = AtStep(j, {"record", "mark"})
      BY <1>0, <2>1 DEF InQueue, AtStep
    <3>3. InQueue(j)' /\ item'[j].page # None => Registered(item[j].page)'
      <4>1. SUFFICES ASSUME InQueue(j), item[j].page # None PROVE Registered(item[j].page)'
        BY <2>1, <3>2
      <4>2. PICK r \in Rows : r = item[j].page /\ r # p /\ Registered(r)
        BY <2>1, <3>1, <4>1 DEF ItemsOK
      <4>3. r = item'[j].page /\ Registered(r)'
        BY <1>9, <2>1, <4>2
      <4>4. QED
        BY <4>3 DEF Registered
    <3>4. QED
      BY <1>0, <2>1, <3>2, <3>3 DEF ItemsOK
  <2>2. CASE InQueue(j) /\ item'[j] \in ItemRow /\ item'[j].page = None /\ item'[j].status = item[j].status
    BY <1>0, <2>2, QueueAssumption DEF ItemsOK, AtStep
  <2>3. QED
    BY <1>1, <2>1, <2>2
<1>11. ItemsOK'
  BY <1>10 DEF ItemsOK
<1>12. QED
  BY <1>3, <1>5, <1>8, <1>11

(* A start of the server cuts all requests short.                          *)
LEMMA RestartServerStep ==
  ASSUME QueueInv, NEW k \in Keys \cup {None}, RestartServer(k), Lasting PROVE QueueInv'
<1> USE DEF QueueInv
<1>0. /\ task' = [q \in Publishers |-> NoTask] /\ cut' = cut \cup Unfinished(Publishers)
      /\ UNCHANGED <<page, undone, item, inHistory, posts, loud, restated>>
  BY DEF RestartServer, Restart
<1>1. \A q \in Publishers : task[q].at \in {"record", "mark"} => task[q].item \in Unfinished(Publishers)
  BY DEF Unfinished
<1>2. cut \subseteq cut' /\ cut' \subseteq Items
  <2>1. \A q \in Publishers : task[q].at \in {"record", "mark"} => task[q].item \in Items
    BY DEF TasksOK, TaskOK
  <2>2. Unfinished(Publishers) \subseteq Items
    BY <2>1 DEF Unfinished
  <2>3. cut \subseteq Items
    BY DEF QueueTypes
  <2>4. QED
    BY <1>0, <2>2, <2>3
<1>3. ItemsKept /\ QueueTypes' /\ SilentAfterSwitchOff'
  BY <1>0, <1>2, NoTaskIsOK DEF ItemsKept, InQueue, QueueTypes, SilentAfterSwitchOff
<1>4. TasksOK'
  BY <1>0, <1>3, TasksKept
<1>5. ASSUME NEW j \in Items
      PROVE  /\ IsFiniteSet(Recording(j)')
             /\ Cardinality(Recording(j)') <= Cardinality(Recording(j))
             /\ Cardinality(Recording(j)') = Cardinality(Recording(j)) \/ j \in cut'
  <2>1. Recording(j)' = {}
    BY <1>0, NoTaskIsOK DEF Recording
  <2>2. Recording(j) = {} \/ j \in cut'
    BY <1>0, <1>1 DEF Recording
  <2>3. IsFiniteSet(Recording(j)') /\ Cardinality(Recording(j)') = 0 /\ Cardinality(Recording(j)) \in Nat
        /\ (Recording(j) = {} => Cardinality(Recording(j)) = 0)
    BY <2>1, FS_EmptySet, FS_CardinalityType DEF CountsOK
  <2>4. QED
    BY <2>2, <2>3
<1>6. CountsOK'
  BY <1>0, <1>2, <1>3, <1>5, CountsKept DEF QueueTypes
<1>7. \A j \in Items : AtStep(j, {"record", "mark"}) => j \in cut'
  BY <1>0, <1>1 DEF AtStep
<1>8. ItemsOK'
  BY <1>0, <1>2, <1>7 DEF ItemsOK, InQueue, Registered
<1>9. QED
  BY <1>3, <1>4, <1>6, <1>8

-----------------------------------------------------------------------------
(* The queue's invariants hold at first.                                   *)
LEMMA QueueAtFirst == Init => QueueInv
<1> SUFFICES ASSUME Init PROVE QueueInv
  OBVIOUS
<1>1. QueueTypes
  BY NoTaskIsOK DEF Init, QueueTypes
<1>2. TasksOK
  BY NoTaskIsOK DEF Init, TasksOK
<1>3. ItemsOK
  BY DEF Init, ItemsOK, InQueue
<1>4. ASSUME NEW i \in Items
      PROVE  /\ IsFiniteSet(Recording(i))
             /\ inHistory[i] + Cardinality(Recording(i)) <= posts[i]
             /\ ~InQueue(i)
  <2>1. Recording(i) = {}
    BY NoTaskIsOK DEF Init, Recording
  <2>2. QED
    BY <2>1, FS_EmptySet DEF Init, InQueue
<1>5. CountsOK
  BY <1>4 DEF CountsOK
<1>6. SilentAfterSwitchOff
  BY DEF Init, SilentAfterSwitchOff
<1>7. QED
  BY <1>1, <1>2, <1>3, <1>5, <1>6 DEF QueueInv

(* The steps of the queue, which leave the pages alone.                    *)
LEMMA QueueStep ==
  ASSUME PagesInv, QueueInv, QueueRequests PROVE PagesInv' /\ QueueInv'
<1>1. ASSUME NEW i \in Items, Enqueue(i) PROVE PagesInv' /\ QueueInv'
  <2>1. PagesInv'
    BY <1>1, PagesStutter DEF Enqueue, pvars, bounds, Bounded, PagesInv
  <2>2. QED
    BY <1>1, <2>1, EnqueueStep
<1>2. ASSUME NEW i \in Items, Approve(i) \/ Reject(i) PROVE PagesInv' /\ QueueInv'
  <2>1. PICK s \in Statuses \ {"PUBLISHED"} : UpdateStatus(i, s)
    BY <1>2 DEF Approve, Reject, Statuses
  <2>2. PagesInv'
    BY <2>1, PagesStutter, PagesAssumption DEF UpdateStatus, ItemOp, Op, Bounded, PagesInv
  <2>3. QED
    BY <2>1, <2>2, UpdateStatusStep
<1>3. ASSUME NEW i \in Items, DeleteItem(i) PROVE PagesInv' /\ QueueInv'
  <2>1. PagesInv'
    BY <1>3, PagesStutter, PagesAssumption DEF DeleteItem, ItemOp, Op, Bounded, PagesInv
  <2>2. QED
    BY <1>3, <2>1, DeleteItemStep
<1>4. ASSUME NEW q \in Publishers, NEW i \in Items, RegenerateContent(q, i) \/ PublishNow(q, i)
      PROVE  PagesInv' /\ QueueInv'
  <2>1. PICK s \in {"rewrite", "lookUp"} : Start(q, i, s) /\ UNCHANGED qhist
    BY <1>4 DEF RegenerateContent, PublishNow
  <2>2. PagesInv'
    BY <2>1, PagesStutter, PagesAssumption DEF Start, ItemOp, Op, Bounded, PagesInv
  <2>3. QED
    BY <2>1, <2>2, StartStep
<1>5. ASSUME NEW q \in Publishers, Rewrite(q) \/ LookUpPage(q) \/ MarkPublished(q) PROVE PagesInv' /\ QueueInv'
  <2>1. PagesInv'
    <3>1. UNCHANGED <<tables, requests, hist>> /\ Bounded'
      BY <1>5 DEF Rewrite, LookUpPage, MarkPublished, pvars, bounds, Bounded, PagesInv
    <3>2. QED
      BY <3>1, PagesStutter
  <2>2. QED
    BY <1>5, <2>1, RewriteStep, LookUpPageStep, MarkPublishedStep
<1>6. ASSUME NEW q \in Publishers, Post(q) PROVE PagesInv' /\ QueueInv'
  <2>1. PagesInv'
    BY <1>6, PagesStutter, PagesAssumption DEF Post, NoFault, Fault, bounds, Bounded, PagesInv
  <2>2. QED
    BY <1>6, <2>1, PostStep
<1>7. ASSUME NEW q \in Publishers, Record(q) PROVE PagesInv' /\ QueueInv'
  <2>1. PagesInv'
    BY <1>7, PagesStutter, PagesAssumption DEF Record, NoFault, Fault, bounds, Bounded, PagesInv
  <2>2. QED
    BY <1>7, <2>1, RecordStep
<1>8. ASSUME NEW q \in Publishers, GiveUpTask(q) PROVE PagesInv' /\ QueueInv'
  <2>1. PagesInv'
    BY <1>8, PagesStutter, PagesAssumption DEF GiveUpTask, Fault, bounds, Bounded, PagesInv
  <2>2. QED
    BY <1>8, <2>1, GiveUpTaskStep
<1>9. QED
  BY <1>1, <1>2, <1>3, <1>4, <1>5, <1>6, <1>7, <1>8 DEF QueueRequests

(* Every step keeps the invariant of the pages and that of the queue.      *)
LEMMA Step ==
  ASSUME PagesInv, QueueInv, [Next]_vars PROVE PagesInv' /\ QueueInv'
<1>1. CASE PageRequests /\ UNCHANGED qvars
  BY <1>1, RequestsStep, QueueStutter
<1>2. ASSUME NEW p \in Rows, DropPage(p) PROVE PagesInv' /\ QueueInv'
  BY <1>2, DeletePageStep, DropPageStep DEF DropPage
<1>3. ASSUME NEW k \in Keys \cup {None}, RestartServer(k) PROVE PagesInv' /\ QueueInv'
  BY <1>3, RestartStep, RestartServerStep DEF RestartServer
<1>4. CASE QueueRequests
  BY <1>4, QueueStep
<1>5. CASE UNCHANGED vars
  <2>1. PagesInv' /\ Lasting
    BY <1>5, PagesStutter DEF vars, pvars, bounds, Bounded, PagesInv
  <2>2. QED
    BY <1>5, <2>1, QueueStutter DEF vars
<1>6. QED
  BY <1>1, <1>2, <1>3, <1>4, <1>5 DEF Next

(* The inductive invariant of the pages and the queue.                     *)
LEMMA Invariant == Spec => [](PagesInv /\ QueueInv)
<1>1. Init => PagesInv /\ QueueInv
  BY PagesAtFirst, QueueAtFirst DEF Init
<1>2. PagesInv /\ QueueInv /\ [Next]_vars => (PagesInv /\ QueueInv)'
  BY Step
<1>3. QED
  BY <1>1, <1>2, PTL DEF Spec

-----------------------------------------------------------------------------
(* The tables have their types, and the foreign keys of pages and items    *)
(* hold (migrations, ON DELETE SET NULL and CASCADE).                      *)
THEOREM TypeCorrect == Spec => []TypeOK
<1>1. PagesInv /\ QueueInv => TypeOK
  <2> SUFFICES ASSUME PagesInv, QueueInv PROVE TypeOK
    OBVIOUS
  <2>1. \A p \in Rows : Registered(p) => page[p] \in PageRow /\ PersonaExists(page[p].persona)
    BY DEF PagesInv, PageTypes, RowsOK, Registered
  <2>2. \A i \in Items : InQueue(i) =>
          item[i] \in ItemRow /\ (item[i].page # None => Registered(item[i].page))
    BY DEF QueueInv, QueueTypes, ItemsOK, InQueue
  <2>3. ASSUME NEW i \in Items PROVE inHistory[i] <= posts[i]
    <3>1. /\ inHistory[i] \in Nat /\ posts[i] \in Nat /\ Cardinality(Recording(i)) \in Nat
          /\ inHistory[i] + Cardinality(Recording(i)) <= posts[i]
      BY FS_CardinalityType DEF QueueInv, QueueTypes, CountsOK
    <3>2. QED
      BY <3>1
  <2>4. QED
    BY <2>1, <2>2, <2>3 DEF TypeOK, PagesInv, PageTypes, Bounded
<1>2. QED
  BY <1>1, Invariant, PTL

(* Switches, persona and texts are as last asked for, unless an older copy *)
(* of the row was written back (Update, touchLastActive).                  *)
THEOREM SettingsStay == Spec => []FieldsAsAsked
<1>1. PagesInv => FieldsAsAsked
  <2> SUFFICES ASSUME PagesInv, NEW p \in Rows, NEW g \in Kept, Registered(p), page[p][g] # asked[p][g]
               PROVE  <<p, g>> \in undone
    BY DEF FieldsAsAsked, Kept
  <2>1. GetPage(p)[g] = page[p][g] /\ AsAsked(GetPage(p), p, {})
    BY Read DEF PagesInv, RowsOK
  <2>2. QED
    BY <2>1 DEF AsAsked
<1>2. QED
  BY <1>1, Invariant, PTL

(* A page's token can be read however often its row is written back,       *)
(* unless the key was changed or it looked sealed (Encrypt, Decrypt).      *)
THEOREM TokensStayReadable == Spec => []TokensReadable
<1>1. PagesInv => TokensReadable
  BY DEF PagesInv, RowsOK, AsAsked, TokensReadable
<1>2. QED
  BY <1>1, Invariant, PTL

(* A page whose posting was switched off is not posted to by requests that *)
(* read it afterwards, unless an older copy undid that (PublishContent).   *)
THEOREM NoPostsAfterSwitchOff == Spec => []SilentAfterSwitchOff
<1>1. QueueInv => SilentAfterSwitchOff
  BY DEF QueueInv
<1>2. QED
  BY <1>1, Invariant, PTL

(* Status, feed and history agree but for failed calls and requests cut    *)
(* short (PublishNow, InsertHistory, the cascades of DeletePage).          *)
THEOREM PostsStayAccounted == Spec => []PostsAreAccounted
<1>1. PagesInv /\ QueueInv => PostsAreAccounted
  <2> SUFFICES ASSUME QueueInv, NEW i \in Items, InQueue(i)
               PROVE  /\ item[i].status = "PUBLISHED" => posts[i] > 0
                      /\ posts[i] > 0 =>
                           item[i].status = "PUBLISHED" \/ i \in cut \cup restated \/ AtStep(i, {"record", "mark"})
                      /\ posts[i] > inHistory[i] => item[i].page = None \/ i \in cut \/ AtStep(i, {"record"})
    BY DEF PostsAreAccounted, AtStep
  <2>1. ASSUME posts[i] > inHistory[i], item[i].page # None, i \notin cut PROVE AtStep(i, {"record"})
    <3>1. /\ inHistory[i] \in Nat /\ posts[i] \in Nat /\ Cardinality(Recording(i)) \in Nat
          /\ posts[i] <= inHistory[i] + Cardinality(Recording(i))
      BY <2>1, FS_CardinalityType DEF QueueInv, QueueTypes, CountsOK
    <3>2. Recording(i) # {}
      <4>1. Cardinality(Recording(i)) # 0
        BY <2>1, <3>1
      <4>2. QED
        BY <4>1, FS_EmptySet
    <3>3. QED
      BY <3>2 DEF Recording, AtStep
  <2>2. QED
    BY <2>1 DEF QueueInv, ItemsOK
<1>2. QED
  BY <1>1, Invariant, PTL
=============================================================================
