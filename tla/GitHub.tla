--------------------------------- MODULE GitHub ---------------------------------
(***************************************************************************)
(* GitHubConnector: issues become tasks; what people write on the tasks    *)
(* goes back as edits and comments, and tasks made in Odoo become issues.  *)
(***************************************************************************)
EXTENDS ConnectorRun, Integers

CONSTANTS
    Versions,  \* what the title, the body and the state may say together
    Bodies     \* of comments

\* The text of an issue: words ("blank" without a title) and whether it has labels.  Its
\* task carries the same text back and forth: the body in the first <pre> block, the title
\* after the number.  What people write has labels.
Texts   == Versions \X BOOLEAN
Written == Versions \X {TRUE}
Blank   == <<"blank", FALSE>>

\* source.issues[i]: [text, thread: a bag of bodies, origin: the task it was made from, or
\* 0]; the key of its task is i.  source.project: the Odoo project is there.
\* source.settings: can_write, and sync_comments.
\* A task: [key, hash, text, chatter: the bodies that people wrote].  One that exists only
\* in Odoo has no external id; here its key is minus its id.
Issue(text, origin) == [text |-> text, thread |-> EmptyBag, origin |-> origin]
OwnTask(id, text)   == [key |-> -id, hash |-> <<>>, text |-> text, chatter |-> {}]
OnlyInOdoo(task)    == task.key < 0

Init ==
    /\ RunInit
    /\ \E first \in {<<CHOOSE v \in Versions : TRUE, TRUE>>, Blank},
          settings \in [write : BOOLEAN, comments : BOOLEAN] :
        /\ settings.write \/ settings.comments
        /\ source = [issues |-> <<Issue(first, 0)>>, project |-> FALSE, settings |-> settings]
    /\ odoo = <<>>

\* What a run knows: its phase, the project, the snapshots that preload() took, and of
\* every issue it has been through the outcome.
NoMemory == [phase |-> "issues", project |-> FALSE, snap |-> <<>>, out |-> <<>>]

allowed == source.settings.write /\ ~run.dry

Start == Begin("fetch", <<>>)

\* _fetch_issues.  The pull request that the repository has is counted as skipped.
FetchIssues ==
    /\ run.pc = "fetch"
    /\ \/ Well([Counted(run, "skipped") EXCEPT
                    !.pc = "project", !.mem = NoMemory, !.handed = 1,
                    !.todo = [i \in 1..Len(source.issues) |-> [key |-> i, text |-> source.issues[i].text]]])
       \/ Ill(Aborted(run))
    /\ UNCHANGED <<source, odoo, reviews, log, changes>>

\* _ensure_project
EnsureProject ==
    LET Found(project) == [run EXCEPT !.pc = "preload", !.mem.project = project] IN
    /\ run.pc = "project"
    /\ IF source.project \/ run.dry
       THEN UNCHANGED source /\ (Well(Found(source.project)) \/ Ill(Aborted(run)))
       ELSE Send(LAMBDA n : source' = [source EXCEPT !.project = @ \/ n > 0],
                 LAMBDA n : Wrote(Found(TRUE)), Aborted(Wrote(run)))
    /\ UNCHANGED <<odoo, reviews, log, changes>>

\* preload(): identity, hash and the fields of the snapshot.
Preload ==
    LET cache == Preloaded(1..Len(run.todo))
        snap == [key \in {c.key : c \in cache} |-> odoo[Lookup(key).id].text] IN
    /\ run.pc = "preload"
    /\ \/ Well([run EXCEPT !.pc = "next", !.cache = cache, !.mem.snap = snap])
       \/ Ill([run EXCEPT !.pc = "next"])
    /\ UNCHANGED <<source, odoo, reviews, log, changes>>

Phase(phase) == run.pc = "next" /\ run.todo # <<>> /\ run.mem.phase = phase
Over(phase)  == run.pc = "next" /\ run.todo = <<>> /\ run.mem.phase = phase

\* The head of _sync_issue, with _fetch_comments: a thread that cannot be read is empty.
\* An issue may come without an id.
TakeIssue ==
    LET issue == Head(run.todo)
        thread == IF source.settings.comments THEN source.issues[issue.key].thread ELSE EmptyBag
        Read(bodies) ==
            [TakenUp(run, [key |-> issue.key, text |-> issue.text, thread |-> bodies]) EXCEPT !.pc = "find"] IN
    /\ Phase("issues")
    /\ \/ /\ issue.text[1] = "blank"
          /\ Well([TakenUp(run, issue) EXCEPT !.pc = "review"])
       \/ /\ issue.text[1] # "blank"
          /\ Well(Read(thread)) \/ (thread # EmptyBag /\ Ill(Read(EmptyBag)))
       \/ Ill(Failed(TakenUp(run, issue)))
    /\ UNCHANGED <<source, odoo, reviews, log, changes>>

Noted(r, thread, outcome, id) ==
    Onward([r EXCEPT !.mem.out = Append(@, [key |-> run.at.key, text |-> run.at.text, thread |-> thread,
                                            outcome |-> outcome, id |-> id])])

\* An issue without a title is withheld.
ReviewIssue ==
    /\ run.pc = "review"
    /\ Raise(run.at.key, Noted(Counted(run, "skipped"), EmptyBag, "skipped", 0))
    /\ UNCHANGED <<source, odoo, log, changes>>

Task(key, text, thread) == [key |-> key, hash |-> <<text, thread>>, text |-> text, chatter |-> {}]

\* The upsert of _sync_issue: the comments are in the hash, the chatter is left alone.
SyncIssue ==
    LET task == Task(run.at.key, run.at.text, run.at.thread) IN
    /\ run.pc = "apply"
    /\ Upsert(task, LAMBDA old : [task EXCEPT !.chatter = old.chatter],
              LAMBDA r, outcome, id : Noted(r, run.at.thread, outcome, id))
-------------------------------------------------------------------------------
\* _outbound_payload of what find() has: a snapshot, or the fields that it reads when asked
\* for none, which are not those of a PATCH.  Tags that cannot be read are no labels.
PayloadOf(key) == IF key \in DOMAIN run.mem.snap THEN run.mem.snap[key] ELSE Blank
Unlabelled(text) == <<text[1], FALSE>>

\* The first half of _push_task_updates: the tasks of unchanged issues which say something
\* else than their issue.  A find() that fails here ends the run.
IdentifyUpdates ==
    LET unchanged == {e \in ToSet(run.mem.out) : e.outcome = "skipped"}
        known == {e \in unchanged : Cached(e.key) # {} \/ Lookup(e.key) # NoRecord}
        Updates(Payload(_)) ==
            [run EXCEPT !.mem.phase = "updates",
                        !.todo = SetToSeq({[key |-> e.key, text |-> Payload(e.key)] :
                                            e \in {x \in known : Payload(x.key) # x.text}})] IN
    /\ Over("issues")
    /\ \/ Well(Updates(PayloadOf))
       \/ \E e \in known : /\ PayloadOf(e.key)[2]
                           /\ Ill(Updates(LAMBDA key : IF key = e.key THEN Unlabelled(PayloadOf(key))
                                                       ELSE PayloadOf(key)))
       \/ (\E e \in unchanged : Cached(e.key) = {}) /\ Ill(Aborted([run EXCEPT !.mem = {}]))
    /\ UNCHANGED <<source, odoo, reviews, log, changes>>

\* A push that is not allowed is recorded as a mock write, and skipped.
Withheld(r) == Onward(Counted(r, "skipped"))
Pushed(r)   == [Wrote(r) EXCEPT !.pushed = TRUE]

\* The second half.  GitHub refuses a PATCH without a title.
PushUpdate ==
    LET update == Head(run.todo)
        taken == TakenUp(run, update) IN
    /\ Phase("updates")
    /\ \/ ~allowed /\ Well(Withheld(taken)) /\ UNCHANGED source
       \/ /\ allowed /\ update.text # Blank
          /\ Send(LAMBDA n : source' = IF n = 0 THEN source
                                       ELSE [source EXCEPT !.issues[update.key].text = update.text],
                  LAMBDA n : Onward(Counted(Pushed(taken), "updated")), Failed(Pushed(taken)))
       \/ allowed /\ update.text = Blank /\ Well(Failed(Pushed(taken))) /\ UNCHANGED source
    /\ UNCHANGED <<odoo, reviews, log, changes>>

\* _push_comments: one issue after the other, unless sync_comments is off.
SelectThreads ==
    /\ Over("updates")
    /\ Well([run EXCEPT !.mem.phase = "comments",
                        !.todo = IF source.settings.comments THEN run.mem.out ELSE <<>>])
    /\ UNCHANGED <<source, odoo, reviews, log, changes>>

\* What people wrote on the task, if there is one, and the thread, as it was fetched, does
\* not have.
Pending(e) == IF e.id = 0 THEN {} ELSE odoo[e.id].chatter \ BagToSet(e.thread)

\* What is left to be done when these comments of the issue are to be posted.
Posting(key, bodies) == (IF bodies = {} THEN <<>> ELSE <<[key |-> key, bodies |-> bodies]>>) \o Tail(run.todo)

\* _odoo_chatter_comments: chatter that cannot be read is none.
ReadChatter ==
    LET e == Head(run.todo) IN
    /\ Phase("comments")
    /\ "thread" \in DOMAIN e
    /\ \/ Well([run EXCEPT !.todo = Posting(e.key, Pending(e))])
       \/ e.id # 0 /\ Ill([run EXCEPT !.todo = Tail(@)])
    /\ UNCHANGED <<source, odoo, reviews, log, changes>>

\* An error leaves the other comments of the issue where they are.
PushComment ==
    LET post == Head(run.todo)
        body == CHOOSE b \in post.bodies : TRUE
        left == TakenUp(run, post)
        taken == [left EXCEPT !.todo = Posting(post.key, post.bodies \ {body})]
        Posted(n) == [b \in {body} |-> n] IN
    /\ Phase("comments")
    /\ "bodies" \in DOMAIN post
    /\ \/ ~allowed /\ Well(Withheld(taken)) /\ UNCHANGED source
       \/ /\ allowed
          /\ Send(LAMBDA n : source' = IF n = 0 THEN source
                                       ELSE [source EXCEPT !.issues[post.key].thread = @ (+) Posted(n)],
                  LAMBDA n : Onward(Counted(Pushed(taken), "updated")), Failed(Pushed(left)))
    /\ UNCHANGED <<odoo, reviews, log, changes>>

\* The head of _push_new_tasks: tasks of the project without an external id.
ListTasks ==
    LET own == {i \in 1..Len(odoo) : OnlyInOdoo(odoo[i])}
        Exports(ids) == [run EXCEPT !.mem.phase = "tasks",
                                    !.todo = SetToSeq({[key |-> i, text |-> odoo[i].text] : i \in ids})] IN
    /\ Over("comments")
    /\ Well(Exports(IF run.mem.project THEN own ELSE {})) \/ (own # {} /\ Ill(Exports({})))
    /\ UNCHANGED <<source, odoo, reviews, log, changes>>

\* The POST.  Its answer may come without an id, and then the task is not adopted.
PushTask ==
    LET task == Head(run.todo)
        taken == TakenUp(run, task)
        Made(n, text) == source' = [source EXCEPT !.issues = @ \o [i \in 1..n |-> Issue(text, task.key)]]
        Answered(n) == [Pushed(taken) EXCEPT !.pc = "adopt", !.at = [key |-> Len(source.issues) + n, id |-> task.key]] IN
    /\ Phase("tasks")
    /\ \/ ~allowed /\ Well(Withheld(taken)) /\ UNCHANGED source
       \/ /\ allowed
          /\ Send(LAMBDA n : Made(n, task.text), Answered, Failed(Pushed(taken)))
       \/ allowed /\ task.text[2] /\ Made(1, Unlabelled(task.text)) /\ Ill(Answered(1))
       \/ allowed /\ Made(1, task.text) /\ Ill(Onward(Counted(Pushed(taken), "created")))
    /\ UNCHANGED <<odoo, reviews, log, changes>>

\* Mutant: the new issue's identity is not kept.
AdoptNothing ==
    /\ run.pc = "adopt"
    /\ Well(Onward(Counted(run, "created")))
    /\ UNCHANGED <<source, odoo, reviews, log, changes>>

\* _adopt_created_issue: its hash is left alone.
Adopt ==
    /\ run.pc = "adopt"
    /\ Send(LAMBDA n : odoo' = IF n = 0 THEN odoo ELSE [odoo EXCEPT ![run.at.id].key = run.at.key],
            LAMBDA n : Onward(Counted(run, "created")), Failed(run))
    /\ UNCHANGED <<source, reviews, log, changes>>

Finish ==
    /\ Over("tasks")
    /\ Well(Synced([run EXCEPT !.mem = {}, !.cache = {}]))
    /\ UNCHANGED <<source, odoo, reviews, log, changes>>
-------------------------------------------------------------------------------
\* Another run imports an issue.
OtherRun ==
    \E i \in 1..Len(source.issues) :
        LET issue == source.issues[i]
            task == Task(i, issue.text, IF source.settings.comments THEN issue.thread ELSE EmptyBag) IN
        /\ issue.text[1] # "blank"
        /\ Overlap(task, LAMBDA old : [task EXCEPT !.chatter = old.chatter])

\* A person edits an issue, or comments on it, on GitHub; nobody says in one place
\* what has been said in the other already.
Said(b) ==
    \/ \E i \in 1..Len(source.issues) : BagIn(b, source.issues[i].thread)
    \/ \E t \in 1..Len(odoo) : b \in odoo[t].chatter

EditIssue ==
    /\ \E i \in 1..Len(source.issues) :
        \/ \E text \in Written : source' = [source EXCEPT !.issues[i].text = text]
        \/ \E b \in Bodies : /\ ~Said(b)
                             /\ source' = [source EXCEPT !.issues[i].thread = @ (+) SetToBag({b})]
    /\ source' # source
    /\ Change
    /\ UNCHANGED <<odoo, reviews>>

\* A person edits a task, comments on it, or makes one, in Odoo.
EditTask ==
    /\ \/ \E i \in 1..Len(odoo), text \in Written : odoo' = [odoo EXCEPT ![i].text = text]
       \/ \E i \in 1..Len(odoo), b \in Bodies : ~Said(b) /\ odoo' = [odoo EXCEPT ![i].chatter = @ \cup {b}]
       \/ \E text \in Written :
            /\ source.project
            /\ odoo' = Append(odoo, OwnTask(Len(odoo) + 1, text))
    /\ odoo' # odoo
    /\ Change
    /\ UNCHANGED <<source, reviews>>

Step ==
    \/ FetchIssues \/ EnsureProject \/ Preload \/ TakeIssue \/ ReviewIssue \/ Find \/ SyncIssue
    \/ IdentifyUpdates \/ PushUpdate \/ SelectThreads \/ ReadChatter \/ PushComment
    \/ ListTasks \/ PushTask \/ Adopt \/ Finish \/ WriteLog

Next == Start \/ Step \/ Crash \/ OtherRun \/ EditIssue \/ EditTask \/ CloseReview

Spec == Init /\ [][Next]_vars
-------------------------------------------------------------------------------
TypeOK ==
    /\ RunTypeOK
    /\ run.pc \in {"idle", "fetch", "project", "preload", "next", "review", "find", "apply", "adopt", "log",
                   "done", "raised"}
    /\ \A i \in 1..Len(source.issues) :
        source.issues[i].text \in Texts \cup {Blank} /\ IsABag(source.issues[i].thread)
    /\ \A i \in 1..Len(odoo) :
        odoo[i].key \in -Len(odoo)..Len(source.issues) /\ odoo[i].text \in Texts /\ odoo[i].chatter \subseteq Bodies

\* Every issue has a task that says the same; and what people wrote in Odoo is on GitHub,
\* if the connector may write there; the comments of a task that has just become an issue,
\* or whose issue was withheld, follow with the next run.
InStep ==
    /\ \A i \in 1..Len(source.issues) :
        LET issue == source.issues[i]
            id == Lookup(i).id IN
        issue.text # Blank =>
            /\ id # 0
            /\ source.settings.write => odoo[id].text = issue.text
            /\ source.settings.write /\ source.settings.comments /\ odoo[id].hash # <<>> /\ ~BagIn(i, reviews) =>
                odoo[id].chatter \subseteq BagToSet(issue.thread)
    /\ source.settings.write => \A i \in 1..Len(odoo) : ~OnlyInOdoo(odoo[i])

\* After a run that says so and in which nothing went wrong, both sides say the same.
SuccessMeansSynced ==
    run.pc = "done" /\ log.status = "success" /\ run.clean /\ ~run.dry => InStep

\* A comment is in its thread, and an issue made from a task, no more often than things went
\* wrong, plus once.
PostedOnce ==
    /\ \A i \in 1..Len(source.issues) : \A b \in BagToSet(source.issues[i].thread) :
        source.issues[i].thread[b] <= 1 + mishaps
    /\ \A t \in 1..Len(odoo) :
        Cardinality({i \in 1..Len(source.issues) : source.issues[i].origin = t}) <= 1 + mishaps

\* While nobody edits anything, a PATCH makes an issue say what its task says: "PATCH issues
\* whose Odoo task diverges from the issue it was imported from".
PushesOnlyEdits ==
    [][\A i \in 1..Len(source.issues) :
        run.steady /\ run'.steady /\ source'.issues[i].text # source.issues[i].text =>
            \E t \in 1..Len(odoo) : odoo[t].key = i /\ odoo[t].text = source'.issues[i].text]_vars
==================================================================================
