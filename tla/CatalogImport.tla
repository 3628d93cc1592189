--------------------------- MODULE CatalogImport ---------------------------
(***************************************************************************)
(* The scripts that fill the catalogue from the files of the plant:        *)
(* compositions, labour norms and approved prices (prisma/import-catalog,  *)
(* import-price-list, backfill-price-list), what of the catalogue is a     *)
(* product (classify-articles-by-sheet, mark-material-resale-articles) and *)
(* the credit lines of DAMU (import-damu).  A script reads the base first, *)
(* decides in memory and writes statement by statement; people edit the    *)
(* same rows meanwhile and a script may stop anywhere.                     *)
(***************************************************************************)
EXTENDS Integers, Sequences, Functions

CONSTANTS
    Articles, Materials, Operations,
    BomFile, NormFile, PriceFile,  \* rows, in the order of the file
    NameFile,      \* article -> price in the nomenclature of 1C, 0 when none
    Sheet,         \* article -> the types the sheet of the plant gives it
    FactoryCode,   \* articles with a code of the plant's own shape
    MaterialCode,  \* articles whose code is the code of a material
    CreditFiles,   \* files of the bank: contracts by sheet, log of payments
    Nothing,
    Entered,       \* quantities and prices people enter
    MaxRuns,       \* bound: scripts started
    MaxActs        \* bound: edits of people

Contracts == UNION {Range(f.sheets) : f \in CreditFiles}
Dates == UNION {DOMAIN f.log : f \in CreditFiles}

Places == Articles \X Materials \X Operations
Lines == [qty : Nat \ {0}, cost : Nat]
Rows == [price : Nat, history : Seq(Nat), listed : BOOLEAN, resale : BOOLEAN]
NoNorm == -1
Payments == UNION {Range(f.log) : f \in CreditFiles}

ASSUME CatalogAssumption ==
    /\ Entered \subseteq Nat \ {0} /\ MaxRuns \in Nat /\ MaxActs \in Nat
    /\ Nothing \notin Lines /\ Nothing \notin Rows
    /\ \A i \in DOMAIN BomFile : /\ BomFile[i].place \in Places /\ BomFile[i].qty \in Int
                                 /\ BomFile[i].article = BomFile[i].place[1]
    /\ DOMAIN BomFile \subseteq Nat
    /\ \A i \in DOMAIN NormFile : NormFile[i].article \in Articles /\ NormFile[i].hours \in Int
    /\ DOMAIN NormFile \subseteq Nat
    /\ \A i \in DOMAIN PriceFile : PriceFile[i].article \in Articles /\ PriceFile[i].price \in Nat
    /\ DOMAIN PriceFile \subseteq Nat
    /\ NameFile \in [Articles -> Nat]
    /\ FactoryCode \subseteq Articles /\ MaterialCode \subseteq Articles
    /\ \A f \in CreditFiles : f.sheets \in Seq(Range(f.sheets)) /\ f.sheets # <<>>

VARIABLES
    articles,   \* the row of an article, or Nothing
    bom,        \* <<article, material, operation>> -> quantity and cost, or Nothing
    norms,      \* article -> labour norm, or NoNorm
    purchase,   \* material -> purchase price
    credit,     \* contract -> date -> payment, or Nothing
    script, runs, acts,
    done        \* the script that ran to its end undisturbed last

base == <<articles, bom, norms, purchase, credit>>
catalogVars == <<base, script, runs, acts, done>>

Present == {a \in Articles : articles[a] # Nothing}
Composition(a) == {p \in Places : p[1] = a /\ bom[p] # Nothing}
Made(a) == Composition(a) # {} \/ norms[a] # NoNorm

NoScript == [name |-> "none", step |-> "end", replace |-> FALSE, todo |-> {}, rows |-> {}, seen |-> Nothing,
             from |-> 0]

CatalogTypeOK ==
    /\ articles \in [Articles -> Rows \cup {Nothing}]
    /\ bom \in [Places -> Lines \cup {Nothing}]
    /\ norms \in [Articles -> Nat \cup {NoNorm}] /\ purchase \in [Materials -> Nat]
    /\ credit \in [Contracts -> [Dates -> Payments \cup {Nothing}]]
    /\ runs \in 0..MaxRuns /\ acts \in 0..MaxActs

NewArticle == [price |-> 0, history |-> <<>>, listed |-> FALSE, resale |-> FALSE]

\* Some articles are in the catalogue, bare; the others only in the files.
CatalogInit ==
    /\ \E S \in SUBSET Articles : articles = [a \in Articles |-> IF a \in S THEN NewArticle ELSE Nothing]
    /\ bom = [p \in Places |-> Nothing] /\ norms = [a \in Articles |-> NoNorm]
    /\ purchase = [m \in Materials |-> 1]
    /\ credit = [c \in Contracts |-> [d \in Dates |-> Nothing]]
    /\ script = NoScript /\ runs = 0 /\ acts = 0 /\ done = Nothing

(***************************************************************************)
(* People: the engineer edits a composition, the director approves a price,*)
(* supply changes the price of a material.                                 *)
(***************************************************************************)
Act == acts < MaxActs /\ acts' = acts + 1 /\ done' = Nothing /\ UNCHANGED <<credit, script, runs>>

EditComposition(p, n) ==
    /\ Act /\ p[1] \in Present
    /\ bom' = [bom EXCEPT ![p] = IF @ = Nothing THEN [qty |-> n, cost |-> n * purchase[p[2]]] ELSE Nothing]
    /\ UNCHANGED <<articles, norms, purchase>>

ApprovePrice(a, n) ==
    /\ Act /\ a \in Present
    /\ articles' = [articles EXCEPT ![a].price = n, ![a].history = Append(@, n)]
    /\ UNCHANGED <<bom, norms, purchase>>

ChangePurchase(m, n) ==
    /\ Act /\ n # purchase[m] /\ purchase' = [purchase EXCEPT ![m] = n]
    /\ UNCHANGED <<articles, bom, norms>>

(***************************************************************************)
(* Starting, stopping and ending a script.                                 *)
(***************************************************************************)
Start(name, step, replace, todo, seen) ==
    /\ script.name = "none" /\ runs < MaxRuns /\ runs' = runs + 1 /\ done' = Nothing
    /\ script' = [name |-> name, step |-> step, replace |-> replace, todo |-> todo,
                   rows |-> {}, seen |-> seen, from |-> acts]
    /\ UNCHANGED <<base, acts>>

Crash ==
    /\ script.name # "none" /\ script' = NoScript /\ done' = Nothing
    /\ UNCHANGED <<base, runs, acts>>

Without(x) == [script EXCEPT !.todo = @ \ {x}]
Then(step, todo) == [script EXCEPT !.step = step, !.todo = todo]

Finish ==
    /\ script.name # "none" /\ script.step = "end" /\ script' = NoScript
    /\ done' = IF acts = script.from THEN [name |-> script.name, replace |-> script.replace] ELSE Nothing
    /\ UNCHANGED <<base, runs, acts>>

Empty(step, next) == script.step = step /\ script.todo = {} /\ script' = Then(next, {})

(***************************************************************************)
(* Compositions.  Unknown codes, bad quantities and repeated rows are left *)
(* out, costs are taken at the purchase price read at the start; with      *)
(* --replace the rows of an article that are not in the file go first.     *)
(***************************************************************************)
Accepted(rows) ==
    {i \in DOMAIN rows : /\ rows[i].article \in Present /\ rows[i].qty > 0
        /\ \A j \in DOMAIN rows : j < i => rows[j].qty <= 0 \/ rows[j].place # rows[i].place}

ByArticle(a) == {i \in Accepted(BomFile) : BomFile[i].article = a}
Planned == {a \in Articles : ByArticle(a) # {}}

StartBom ==
    \E replace \in BOOLEAN : Start("bom", "extra", replace, Planned, purchase)

Extra_ByMaterial(a) ==
    {p \in Composition(a) : \A i \in ByArticle(a) : BomFile[i].place[2] # p[2]}
Extra(a) == {p \in Composition(a) : \A i \in ByArticle(a) : BomFile[i].place # p}

RemoveExtra ==
    /\ script.step = "extra"
    /\ \E a \in script.todo :
        /\ bom' = IF script.replace THEN [p \in Places |-> IF p \in Extra(a) THEN Nothing ELSE bom[p]] ELSE bom
        /\ script' = [script EXCEPT !.step = "items", !.todo = @ \ {a}, !.rows = ByArticle(a)]
    /\ UNCHANGED <<articles, norms, purchase, credit, runs, acts, done>>

InFile(i, prices) == [qty |-> BomFile[i].qty, cost |-> BomFile[i].qty * prices[BomFile[i].place[2]]]

UpsertItem ==
    /\ script.step = "items"
    /\ \E i \in script.rows :
        /\ bom' = [bom EXCEPT ![BomFile[i].place] = InFile(i, script.seen)]
        /\ script' = [script EXCEPT !.rows = @ \ {i}, !.step = IF script.rows = {i} THEN "extra" ELSE "items"]
    /\ UNCHANGED <<articles, norms, purchase, credit, runs, acts, done>>

(***************************************************************************)
(* Labour norms: the last row of an article and a stage wins.              *)
(***************************************************************************)
NormRows == {i \in DOMAIN NormFile : NormFile[i].article \in Present /\ NormFile[i].hours >= 0}
NormPlan == {i \in NormRows : \A j \in NormRows : NormFile[j].article = NormFile[i].article => j <= i}
StartNorms == Start("norms", "norm", FALSE, NormPlan, Nothing)
UpsertNorm ==
    /\ script.step = "norm"
    /\ \E i \in script.todo :
        norms' = [norms EXCEPT ![NormFile[i].article] = NormFile[i].hours] /\ script' = Without(i)
    /\ UNCHANGED <<articles, bom, purchase, credit, runs, acts, done>>

(***************************************************************************)
(* Approved prices (import-catalog --prices): articles that are missing    *)
(* are created on demand, a price and its line of history are one          *)
(* transaction, and at the end the list is exactly the articles of the     *)
(* file.  import-price-list is the same without creation and marks.        *)
(***************************************************************************)
Known == [a \in Present |-> articles[a].price]
Priced(seen) == {i \in DOMAIN PriceFile : PriceFile[i].article \in DOMAIN seen /\ PriceFile[i].price > 0}
Changed(seen) == {i \in Priced(seen) : seen[PriceFile[i].article] # PriceFile[i].price}

InList_OnlyChanged(seen) == {PriceFile[i].article : i \in Changed(seen)}
InList(seen) == {PriceFile[i].article : i \in Priced(seen)}

StartPrices ==
    \E replace, create \in BOOLEAN :
        Start("prices", "create", replace,
              {PriceFile[i].article : i \in IF create THEN DOMAIN PriceFile ELSE {}} \ Present, Known)

CreateArticle ==
    /\ script.step = "create"
    /\ \E a \in script.todo :
        /\ articles' = [articles EXCEPT ![a] = NewArticle]
        /\ script' = [Without(a) EXCEPT
                !.seen = [x \in DOMAIN script.seen \cup {a} |-> IF x = a THEN 0 ELSE script.seen[x]]]
    /\ UNCHANGED <<bom, norms, purchase, credit, runs, acts, done>>

PlanPrices ==
    /\ script.step = "create" /\ script.todo = {} /\ script' = Then("price", Changed(script.seen))
    /\ UNCHANGED <<base, runs, acts, done>>

StartPriceList == Start("pricelist", "price", FALSE, Changed(Known), Known)

SetPrice ==
    /\ script.step = "price"
    /\ \E i \in script.todo :
        /\ \A j \in script.todo : i <= j
        /\ articles' = [articles EXCEPT ![PriceFile[i].article].price = PriceFile[i].price,
                                       ![PriceFile[i].article].history = Append(@, PriceFile[i].price)]
        /\ script' = Without(i)
    /\ UNCHANGED <<bom, norms, purchase, credit, runs, acts, done>>

SetListed(S, value) ==
    articles' = [a \in Articles |-> IF a \in S \cap Present THEN [articles[a] EXCEPT !.listed = value]
                                    ELSE articles[a]]

MarkListed ==
    /\ script.name = "prices" /\ script.step = "price" /\ script.todo = {}
    /\ SetListed(InList(script.seen), TRUE)
    /\ script' = Then(IF script.replace THEN "unlist" ELSE "end", {})
    /\ UNCHANGED <<bom, norms, purchase, credit, runs, acts, done>>

Unlist ==
    /\ script.step = "unlist"
    /\ SetListed(Articles \ InList(script.seen), FALSE)
    /\ script' = Then("end", {})
    /\ UNCHANGED <<bom, norms, purchase, credit, runs, acts, done>>

\* backfill-price-list: the articles without a price are read once and filled one
\* by one, without a line of history.
StartBackfill ==
    Start("backfill", "fill", FALSE, {a \in Present : articles[a].price = 0 /\ NameFile[a] > 0}, Nothing)
Fill ==
    /\ script.step = "fill"
    /\ \E a \in script.todo :
        articles' = [articles EXCEPT ![a].price = NameFile[a]] /\ script' = Without(a)
    /\ UNCHANGED <<bom, norms, purchase, credit, runs, acts, done>>

(***************************************************************************)
(* Products and resold materials.  The sheet decides where it knows only   *)
(* one type; elsewhere an article goes by the shape of its code, and only  *)
(* if nothing says it is made here.                                        *)
(***************************************************************************)
OnlyIs(a, type) == Sheet[a] = {type}
ToShow == {a \in Present : articles[a].resale /\ OnlyIs(a, "product")}
ByShape_EvenMade == {a \in Present : Sheet[a] = {} /\ a \notin FactoryCode}
ByShape == {a \in Present : Sheet[a] = {} /\ a \notin FactoryCode /\ ~Made(a)}
ToHide == {a \in Present : ~articles[a].resale /\ (OnlyIs(a, "material") \/ a \in ByShape)}

StartClassify == Start("classify", "show", FALSE, {}, [show |-> ToShow, hide |-> ToHide])

\* mark-material-resale-articles: one query finds the codes that are materials'
\* own and have no composition, one update marks them.
Resold == {a \in Present : ~articles[a].resale /\ a \in MaterialCode /\ Composition(a) = {}}
StartMark == Start("mark", "hide", FALSE, {}, [show |-> {}, hide |-> Resold])

SetResale(S, value) ==
    articles' = [a \in Articles |-> IF a \in S \cap Present THEN [articles[a] EXCEPT !.resale = value]
                                    ELSE articles[a]]
Show ==
    /\ script.step = "show" /\ SetResale(script.seen.show, FALSE) /\ script' = Then("hide", {})
    /\ UNCHANGED <<bom, norms, purchase, credit, runs, acts, done>>
Hide ==
    /\ script.step = "hide" /\ SetResale(script.seen.hide, TRUE) /\ script' = Then("end", {})
    /\ UNCHANGED <<bom, norms, purchase, credit, runs, acts, done>>

(***************************************************************************)
(* import-damu: a line of credit for every sheet, and the payments of the  *)
(* log, keyed by line and day, to the line of the last sheet.              *)
(***************************************************************************)
PayTo(f) == {f.sheets[Len(f.sheets)]}
LogRows(f) == {<<c, d>> : c \in PayTo(f), d \in DOMAIN f.log}
StartCredit == \E f \in CreditFiles : Start("credit", "credit", FALSE, LogRows(f), f)
UpsertPayment ==
    /\ script.step = "credit"
    /\ \E row \in script.todo :
        credit' = [credit EXCEPT ![row[1]][row[2]] = script.seen.log[row[2]]] /\ script' = Without(row)
    /\ UNCHANGED <<articles, bom, norms, purchase, runs, acts, done>>

Ends ==
    /\ \/ Empty("extra", "end") \/ Empty("norm", "end") \/ Empty("fill", "end") \/ Empty("credit", "end")
       \/ script.name = "pricelist" /\ Empty("price", "end")
    /\ UNCHANGED <<base, runs, acts, done>>

PeopleStep == \E n \in Entered :
    \/ \E p \in Places : EditComposition(p, n)
    \/ \E a \in Articles : ApprovePrice(a, n)
    \/ \E m \in Materials : ChangePurchase(m, n)
Starts == StartBom \/ StartNorms \/ StartPrices \/ StartPriceList \/ StartBackfill
          \/ StartClassify \/ StartMark \/ StartCredit
ScriptStep == RemoveExtra \/ UpsertItem \/ UpsertNorm \/ CreateArticle \/ PlanPrices \/ SetPrice \/ MarkListed
              \/ Unlist \/ Fill \/ Show \/ Hide \/ UpsertPayment \/ Ends \/ Finish
CatalogNext == PeopleStep \/ Starts \/ Crash \/ ScriptStep
CatalogSpec == CatalogInit /\ [][CatalogNext]_catalogVars

(***************************************************************************)
(* Properties.                                                             *)
(***************************************************************************)
\* A replaced composition is the one of the file, row by row and at the current
\* prices, however often the replacement was stopped half way before.
CompositionAsInFile ==
    /\ CatalogTypeOK
    /\ done # Nothing /\ done.name = "bom" /\ done.replace =>
        \A a \in Planned : /\ Composition(a) = {BomFile[i].place : i \in ByArticle(a)}
                           /\ \A i \in ByArticle(a) : bom[BomFile[i].place] = InFile(i, purchase)

\* "Прайс-лист — это ровно то, что в файле": the articles whose price did not
\* change included.
ListIsFile ==
    done # Nothing /\ done.name = "prices" /\ done.replace =>
        {a \in Present : articles[a].listed} =
            {a \in Present : \E i \in DOMAIN PriceFile : PriceFile[i].article = a /\ PriceFile[i].price > 0}

\* What is made here is not hidden as a resold material by a guess: an article with a
\* composition is hidden only because the sheet calls it a material or because it got
\* the composition after the script had read the base; the classification spares an
\* article with norms too.
MadeStaysShown ==
    [][\A a \in Present : ~articles[a].resale /\ articles'[a].resale /\ acts = script.from =>
            \/ OnlyIs(a, "material")
            \/ IF script.name = "mark" THEN Composition(a) = {} ELSE ~Made(a)]_catalogVars
=============================================================================
