-------------------------- MODULE MCLanguageServer --------------------------
(* An instance of LanguageServer: a folder with two documents in it, one of a *)
(* path that names no module, and a folder below it with another.             *)
EXTENDS LanguageServer
CONSTANTS a, b, odd, outer, inner

Message(kind, d) == [kind |-> kind, doc |-> d, roots |-> {}, target |-> 0]
FolderMessages == {[Message("folders", a) EXCEPT !.roots = S] : S \in {{outer}, {outer, inner}}}
CancelMessages == {[Message("cancel", a) EXCEPT !.target = k] : k \in 2..3}

ThreeDocs == {a, b, odd}
TwoRoots == {outer, inner}
Nested == a :> <<outer>> @@ b :> <<inner, outer>> @@ odd :> <<outer>>
Modules == outer :> {a, b} @@ inner :> {b}
UriOrder == <<outer, a, odd, inner, b>>

Package(files) == [manifest |-> TRUE, sound |-> TRUE, files |-> files]
NoPackage == [manifest |-> FALSE, sound |-> FALSE, files |-> {}]
FourDisks == {NoPackage, Package({a}), Package({b}), Package({a, b})}

BothOpen == <<a, b>>

\* A package that another program writes to.
Editing == [roots |-> {outer}, disk |-> outer :> NoPackage @@ inner :> NoPackage,
            writes |-> {Package({a}), Package({a, b})}, diskChanges |-> 2, panics |-> FALSE,
            opening |-> BothOpen, messages |-> 4,
            vocabulary |-> {Message("change", b), Message("watched", b), Message("request", a)}]

\* Folders come and go.
Regrouping == [roots |-> {outer}, disk |-> outer :> Package({a, b}) @@ inner :> Package({b}),
               writes |-> {}, diskChanges |-> 0, panics |-> FALSE,
               opening |-> BothOpen, messages |-> 4,
               vocabulary |-> FolderMessages \cup
                   {Message("close", b), Message("save", b), Message("request", b)}]

\* A document by itself: requests, cancellations, the end of the session.
Asking == [roots |-> {}, disk |-> outer :> NoPackage @@ inner :> NoPackage,
           writes |-> {}, diskChanges |-> 0, panics |-> TRUE,
           opening |-> <<a>>, messages |-> 4,
           vocabulary |-> CancelMessages \cup
               {Message("open", a), Message("change", a), Message("stale", a),
                Message("request", a), Message("shutdown", a), Message("exit", a)}]

\* A folder, with a document in it that is no module until it is by itself.
Naming == [roots |-> {outer}, disk |-> outer :> NoPackage @@ inner :> NoPackage,
           writes |-> {}, diskChanges |-> 0, panics |-> FALSE,
           opening |-> <<a, odd>>, messages |-> 4,
           vocabulary |-> {Message("folders", a), Message("change", odd), Message("close", a),
                           Message("request", odd)}]

FourSessions == {Editing, Regrouping, Asking, Naming}

\* A package that holds the document of the folder below it.
OneInAnother == {[Regrouping EXCEPT !.roots = {outer, inner}, !.vocabulary = {Message("request", a)},
                                    !.messages = 3]}
=============================================================================
