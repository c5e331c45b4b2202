------------------------------- MODULE Shopping -------------------------------
(* Shopping lists and the reorder list of one storage, and the pictures of the
   products they make (internal/store/shoppinglists.go, internal/store/reorder.go,
   internal/httpapi/shoppinglists.go, reorder.go, productpictures.go).

   A list keeps nothing but its lines, and lines do not depend on each other, so a
   list is a single line here.  A line's text is the quantity it parses to; what it
   matches is left open.  A picture is a file written before the transaction that
   names it and removed when that transaction fails. *)
EXTENDS Integers, FiniteSets

CONSTANTS
    Line,           \* ids of shopping_list_items: naturals, taken in order
    Ware,           \* ids of products: naturals, taken in order
    Picture,        \* names of picture files: naturals, taken in order
    Amount,         \* quantities a line or a request may name
    Shopper,        \* requests being served
    PhotoJob,       \* photo jobs whose photo turned out to show a list
    ListJob,        \* shopping_list_photo jobs
    MaxRequests,
    None            \* no row; NULL

ASSUME ShoppingAssumption ==
    /\ Line \subseteq Nat /\ Ware \subseteq Nat /\ Picture \subseteq Nat /\ Amount \subseteq Nat
    /\ 1 \in Ware /\ MaxRequests \in Nat
    /\ PhotoJob \cap ListJob = {} /\ {None} \cap (Nat \cup PhotoJob) = {}
    /\ None \notin {"resolve", "track", "image", "convert"}

VARIABLES
    ware,           \* products there are: image_url and min_stock
    line,
    jobStatus,
    photos,         \* jobs whose photo is on disk
    disk,           \* product pictures on disk
    request,
    stocked,        \* history: units of the batches made for a line
    lists,          \* history: lists made from a job
    rises, credits, \* history: times a product's min_stock left 0 by AddItem; contributions for it
    blind,          \* history: products whose commit was answered with an error
    made, spent,    \* history: ids of products and names of pictures given out
    requests        \* history: requests begun

shoppingVars == <<ware, line, jobStatus, photos, disk, request, stocked, lists, rises, credits,
                  blind, made, spent, requests>>

NoLine == [status |-> "absent", text |-> 0, match |-> None, quantity |-> 0]
NoRequest == [phase |-> "idle", kind |-> None, line |-> None, job |-> None, ware |-> None,
              new |-> FALSE, quantity |-> 0, picture |-> None, previous |-> None]

ShoppingInit ==
    /\ ware = [w \in {1} |-> [picture |-> None, minStock |-> 0]]
    /\ line = [l \in Line |-> NoLine]
    /\ jobStatus = [j \in PhotoJob \cup ListJob |-> IF j \in PhotoJob THEN "done" ELSE "absent"]
    /\ photos = PhotoJob
    /\ disk = {}
    /\ request = [s \in Shopper |-> NoRequest]
    /\ stocked = [l \in Line |-> 0]
    /\ lists = [j \in PhotoJob \cup ListJob |-> 0]
    /\ rises = [w \in Ware |-> 0] /\ credits = [w \in Ware |-> 0]
    /\ blind = {} /\ made = {1} /\ spent = {} /\ requests = 0

Wares == DOMAIN ware
tally == <<stocked, rises, credits>>
Lowest(x, S) == x \in S /\ \A y \in S : x <= y
FreshLine(l) == Lowest(l, {k \in Line : line[k].status = "absent"})
FreshWare(w) == Lowest(w, Ware \ made)
FreshPicture(f) == Lowest(f, Picture \ spent)

\* MatchProductCandidates: one product for certain, several perhaps, or none.
Matches ==
    {[status |-> "exact_match", match |-> w] : w \in Wares}
        \cup {[status |-> x, match |-> None] : x \in {"ambiguous", "new_item"}}

NewLine(t, m) == [status |-> m.status, text |-> t, match |-> m.match, quantity |-> 0]

\* Rows that a request's transaction has locked.
LineHeld(l) == \E s \in Shopper : request[s].phase = "locked" /\ request[s].line = l
WareHeld(w) == \E s \in Shopper : request[s].phase = "locked" /\ request[s].kind # "resolve"
                                    /\ request[s].ware = w

-----------------------------------------------------------------------------
(* Lists *)

CreateShoppingList(l, t, m) ==
    /\ FreshLine(l)
    /\ line' = [line EXCEPT ![l] = NewLine(t, m)]
    /\ UNCHANGED <<ware, jobStatus, photos, disk, request, tally, lists, blind, made, spent, requests>>

\* The photo is on disk before the job is there.
StartShoppingList(j) ==
    /\ j \in ListJob /\ jobStatus[j] = "absent"
    /\ jobStatus' = [jobStatus EXCEPT ![j] = "pending"]
    /\ photos' = photos \cup {j}
    /\ UNCHANGED <<ware, line, disk, request, tally, lists, blind, made, spent, requests>>

\* The job's work makes the list; the outcome may be lost after that, and the job
\* is then run again.
ListWork(j, l, t, m, outcome) ==
    /\ j \in ListJob /\ jobStatus[j] = "pending" /\ FreshLine(l)
    /\ line' = [line EXCEPT ![l] = NewLine(t, m)]
    /\ lists' = [lists EXCEPT ![j] = @ + 1]
    /\ jobStatus' = [jobStatus EXCEPT ![j] = outcome]
    /\ UNCHANGED <<ware, photos, disk, request, tally, blind, made, spent, requests>>

\* What else becomes of a photo job: it is confirmed or discarded, or analysed again.
ReviewElsewhere(j) ==
    /\ j \in PhotoJob
    /\ \/ jobStatus[j] = "done" /\ jobStatus' = [jobStatus EXCEPT ![j] = "gone"]
       \/ jobStatus[j] = "done" /\ jobStatus' = [jobStatus EXCEPT ![j] = "pending"]
       \/ jobStatus[j] = "pending" /\ jobStatus' = [jobStatus EXCEPT ![j] = "done"]
    /\ UNCHANGED <<ware, line, photos, disk, request, tally, lists, blind, made, spent, requests>>

\* The new text is matched anew; a resolved line keeps what it has.
RematchShoppingListItem(l, t, m) ==
    /\ line[l].status \notin {"absent", "resolved"} /\ ~LineHeld(l)
    /\ m \in Matches
    /\ line' = [line EXCEPT ![l] = [NewLine(t, m) EXCEPT !.quantity = line[l].quantity]]
    /\ UNCHANGED <<ware, jobStatus, photos, disk, request, tally, lists, blind, made, spent, requests>>

-----------------------------------------------------------------------------
(* Requests of more than one step *)

FreshShopper(s) == request[s].phase = "idle" /\ s = CHOOSE r \in Shopper : request[r].phase = "idle"

BeginRequest(s, r) ==
    /\ FreshShopper(s) /\ requests < MaxRequests
    /\ request' = [request EXCEPT ![s] = r]
    /\ requests' = requests + 1
    /\ UNCHANGED <<ware, line, jobStatus, photos, disk, tally, lists, blind, made, spent>>

\* Resolve reads the line, whatever its status, for the quantity of its text, unless
\* the request names one; a line resolved to no product adds nothing.
Resolve(s, l, w, new, q) ==
    /\ line[l].status # "absent"
    /\ w = None \/ (w \in Wares /\ ~new)
    /\ q \in IF w = None /\ ~new THEN {0} ELSE {0, line[l].text} \cup Amount
    /\ BeginRequest(s, [NoRequest EXCEPT !.phase = IF new THEN "picture" ELSE "ready",
                        !.kind = "resolve", !.line = l, !.ware = w, !.new = new, !.quantity = q])

\* AddItem sets the threshold of the product that is named or matched for certain,
\* and otherwise makes a product.
AddItem(s, w, new) ==
    /\ w = None <=> new
    /\ w = None \/ w \in Wares
    /\ BeginRequest(s, [NoRequest EXCEPT !.phase = IF new THEN "picture" ELSE "ready",
                        !.kind = "track", !.ware = w, !.new = new])

\* SetImage and UploadImage.
SetImage(s, w) ==
    /\ w \in Wares
    /\ BeginRequest(s, [NoRequest EXCEPT !.phase = "picture", !.kind = "image", !.ware = w])

\* createFromJob: a proposal that waits for review and was read as a list.
CreateFromJob(s, j) ==
    /\ j \in PhotoJob /\ jobStatus[j] = "done"
    /\ BeginRequest(s, [NoRequest EXCEPT !.phase = "ready", !.kind = "convert", !.job = j])

\* promoteSuggestion, promoteSource, save: the picture that was picked, if one was
\* and could be had.
PromotePicture(s, f) ==
    /\ request[s].phase = "picture" /\ (f = None \/ FreshPicture(f))
    /\ disk' = disk \cup ({f} \ {None})
    /\ spent' = spent \cup ({f} \ {None})
    /\ request' = [request EXCEPT ![s].phase = "ready", ![s].picture = f]
    /\ UNCHANGED <<ware, line, jobStatus, photos, tally, lists, blind, made, requests>>

\* Seeded fault: a line that another request settled meanwhile is settled again.
BugLineOpen(l) == TRUE

LineOpen(l) == line[l].status # "resolved"

\* SELECT ... FOR UPDATE of the line, or of the product.
LockRow(s) ==
    LET r == request[s]
    IN  /\ r.phase = "ready"
        /\ \/ /\ r.kind = "resolve"
              /\ ~LineHeld(r.line) /\ LineOpen(r.line)
              /\ request' = [request EXCEPT ![s].phase = "locked", ![s].previous = line[r.line].status]
           \/ /\ r.kind \in {"track", "image"} /\ ~r.new
              /\ r.ware \in Wares /\ ~WareHeld(r.ware)
              /\ request' = [request EXCEPT ![s].phase = "locked",
                                            ![s].previous = ware[r.ware].minStock]
        /\ UNCHANGED <<ware, line, jobStatus, photos, disk, tally, lists, blind, made, spent, requests>>

\* The answer to a commit may be lost: the handler then takes the write for failed
\* and removes the picture it had saved.
Answered(s, w, lost) ==
    /\ request' = [request EXCEPT ![s] = NoRequest]
    /\ disk' = IF lost THEN disk \ {request[s].picture} ELSE disk
    /\ blind' = IF lost /\ request[s].picture # None THEN blind \cup {w} ELSE blind
    /\ made' = made \cup ({w} \ {None})
    /\ UNCHANGED <<jobStatus, photos, lists, spent, requests>>

WithWare(w, f, n) == [x \in Wares \cup {w} |-> IF x = w THEN [picture |-> f, minStock |-> n] ELSE ware[x]]

\* The line's product: the one that was named while it is there, or a new one.
ResolveShoppingListItem(s, w, lost) ==
    LET r == request[s]
    IN  /\ r.phase = "locked" /\ r.kind = "resolve"
        /\ IF r.new THEN FreshWare(w) ELSE w = r.ware /\ (w = None \/ (w \in Wares /\ ~WareHeld(w)))
        /\ ware' = IF r.new THEN WithWare(w, r.picture, 0) ELSE ware
        /\ line' = [line EXCEPT ![r.line] = [@ EXCEPT !.status = "resolved", !.match = w,
                                                     !.quantity = r.quantity]]
        /\ stocked' = [stocked EXCEPT ![r.line] = @ + r.quantity]
        /\ Answered(s, w, lost)
        /\ UNCHANGED <<rises, credits>>

\* The threshold, and a contribution when the product was not tracked before.
UpdateProductMinStockAsUser(s, lost) ==
    LET r == request[s]
        first == IF r.previous = 0 THEN 1 ELSE 0
        raised == IF ware[r.ware].minStock = 0 THEN 1 ELSE 0
    IN  /\ r.phase = "locked" /\ r.kind = "track"
        /\ ware' = [ware EXCEPT ![r.ware].minStock = 1]
        /\ rises' = [rises EXCEPT ![r.ware] = @ + raised]
        /\ credits' = [credits EXCEPT ![r.ware] = @ + first]
        /\ Answered(s, r.ware, lost)
        /\ UNCHANGED <<line, stocked>>

CreateTrackedProduct(s, w, lost) ==
    /\ request[s].phase = "ready" /\ request[s].kind = "track" /\ request[s].new
    /\ FreshWare(w)
    /\ ware' = WithWare(w, request[s].picture, 1)
    /\ Answered(s, w, lost)
    /\ UNCHANGED <<line, tally>>

\* The file of the picture that is replaced stays.
SetProductImageAsUser(s, lost) ==
    LET r == request[s]
    IN  /\ r.phase = "locked" /\ r.kind = "image"
        /\ ware' = [ware EXCEPT ![r.ware].picture = r.picture]
        /\ Answered(s, r.ware, lost)
        /\ UNCHANGED <<line, tally>>

\* The job is still a proposal: it goes, and its lines stay as a list.
CreateShoppingListFromJob(s, l, t, m) ==
    LET j == request[s].job
    IN  /\ request[s].phase = "ready" /\ request[s].kind = "convert"
        /\ jobStatus[j] = "done" /\ FreshLine(l)
        /\ line' = [line EXCEPT ![l] = NewLine(t, m)]
        /\ jobStatus' = [jobStatus EXCEPT ![j] = "gone"]
        /\ lists' = [lists EXCEPT ![j] = @ + 1]
        /\ request' = [request EXCEPT ![s].phase = "cleanup"]
        /\ UNCHANGED <<ware, photos, disk, tally, blind, made, spent, requests>>

RemovePhoto(s) ==
    /\ request[s].phase = "cleanup"
    /\ photos' = photos \ {request[s].job}
    /\ request' = [request EXCEPT ![s] = NoRequest]
    /\ UNCHANGED <<ware, line, jobStatus, disk, tally, lists, blind, made, spent, requests>>

\* A refusal or an error: the transaction rolls back and the picture is removed.
RefuseRequest(s) ==
    /\ request[s].phase \in {"picture", "ready", "locked"}
    /\ disk' = disk \ {request[s].picture}
    /\ request' = [request EXCEPT ![s] = NoRequest]
    /\ UNCHANGED <<ware, line, jobStatus, photos, tally, lists, blind, made, spent, requests>>

\* The process ends, and what the request left on disk stays there.
CrashRequest(s) ==
    /\ request[s].phase # "idle"
    /\ request' = [request EXCEPT ![s] = NoRequest]
    /\ UNCHANGED <<ware, line, jobStatus, photos, disk, tally, lists, blind, made, spent, requests>>

-----------------------------------------------------------------------------
(* The same products elsewhere *)

\* PATCH of a product: the threshold, and no contribution.
PatchMinStock(w, n) ==
    /\ w \in Wares /\ ~WareHeld(w) /\ ware[w].minStock # n
    /\ ware' = [ware EXCEPT ![w].minStock = n]
    /\ UNCHANGED <<line, jobStatus, photos, disk, request, tally, lists, blind, made, spent, requests>>

\* What names the product names what replaces it: the survivor of a merge, or
\* nothing.  The picture that nobody names any more is removed after the commit, if
\* that comes to pass.
RetireProduct(w, heir, removed) ==
    /\ w \in Wares /\ heir \in (Wares \ {w}) \cup {None}
    /\ ~WareHeld(w) /\ ~WareHeld(heir) /\ \A l \in Line : line[l].match = w => ~LineHeld(l)
    /\ ware' = [x \in Wares \ {w} |-> ware[x]]
    /\ line' = [l \in Line |-> IF line[l].match = w THEN [line[l] EXCEPT !.match = heir] ELSE line[l]]
    /\ disk' = IF removed THEN disk \ {ware[w].picture} ELSE disk
    /\ blind' = blind \ {w}
    /\ UNCHANGED <<jobStatus, photos, request, tally, lists, made, spent, requests>>

\* Lists typed in, and their lines.
LinesNext(ls) ==
    \E l \in ls, t \in Amount, m \in Matches :
        CreateShoppingList(l, t, m) \/ RematchShoppingListItem(l, t, m)

\* Lists read from photos.
PhotosNext ==
    \/ \E l \in Line, t \in Amount, m \in Matches :
          \/ \E s \in Shopper : CreateShoppingListFromJob(s, l, t, m)
          \/ \E j \in ListJob, outcome \in {"done", "pending"} : ListWork(j, l, t, m, outcome)
    \/ \E j \in ListJob : StartShoppingList(j)
    \/ \E j \in PhotoJob : ReviewElsewhere(j)
    \/ \E s \in Shopper : RemovePhoto(s) \/ \E j \in PhotoJob : CreateFromJob(s, j)

ResolveNext ==
    \/ \E s \in Shopper, l \in Line, w \in Wares \cup {None}, new \in BOOLEAN, q \in Amount \cup {0} :
          Resolve(s, l, w, new, q)
    \/ \E s \in Shopper, w \in Ware \cup {None}, lost \in BOOLEAN : ResolveShoppingListItem(s, w, lost)

ReorderNext ==
    \/ \E s \in Shopper, w \in Wares \cup {None}, new \in BOOLEAN : AddItem(s, w, new)
    \/ \E s \in Shopper, w \in Wares : SetImage(s, w)
    \/ \E s \in Shopper, lost \in BOOLEAN :
          \/ UpdateProductMinStockAsUser(s, lost) \/ SetProductImageAsUser(s, lost)
          \/ \E w \in Ware : CreateTrackedProduct(s, w, lost)
    \/ \E w \in Ware, n \in {0, 1} : PatchMinStock(w, n)

RequestsNext ==
    \/ \E s \in Shopper, f \in Picture \cup {None} : PromotePicture(s, f)
    \/ \E s \in Shopper : LockRow(s) \/ RefuseRequest(s) \/ CrashRequest(s)
    \/ \E w \in Wares, heir \in Wares \cup {None}, removed \in BOOLEAN : RetireProduct(w, heir, removed)

ShoppingNext == LinesNext(Line) \/ PhotosNext \/ ResolveNext \/ ReorderNext \/ RequestsNext

ShoppingSpec == ShoppingInit /\ [][ShoppingNext]_shoppingVars

-----------------------------------------------------------------------------
ShoppingTypeOK ==
    /\ Wares \subseteq made /\ made \subseteq Ware
    /\ ware \in [Wares -> [picture : Picture \cup {None}, minStock : {0, 1}]]
    /\ \A l \in Line : line[l].status \in {"absent", "exact_match", "ambiguous", "new_item", "resolved"}
    /\ \A l \in Line : line[l].match \in Wares \cup {None}
    /\ jobStatus \in [PhotoJob \cup ListJob -> {"absent", "pending", "done", "gone"}]
    /\ photos \subseteq PhotoJob \cup ListJob
    /\ disk \subseteq spent /\ spent \subseteq Picture /\ blind \subseteq Ware

\* A line's stock is what the line says was added, once, whoever else resolves,
\* rematches or repoints it.
LineSettled(l) == stocked[l] = IF line[l].status = "resolved" THEN line[l].quantity ELSE 0

(* What is settled is settled once.  A line's stock is what the line records
   (ResolveShoppingListItem); a proposal turned into a list is gone and is never
   turned into a second one (CreateShoppingListFromJob); a product that was made or
   pictured with an answer has its picture on disk, though the file was written
   before the transaction and is removed on every error (productPictures); a
   contribution is credited exactly when a product starts being tracked
   (UpdateProductMinStockAsUser). *)
ShoppingSettlesOnce ==
    /\ \A l \in Line : LineSettled(l)
    /\ \A j \in PhotoJob : lists[j] <= 1 /\ (lists[j] = 1 => jobStatus[j] = "gone")
    /\ \A w \in Wares \ blind : ware[w].picture # None => ware[w].picture \in disk
    /\ \A w \in Ware : credits[w] = rises[w]

=============================================================================
