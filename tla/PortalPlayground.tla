--------------------------- MODULE PortalPlayground ---------------------------
(***************************************************************************)
(* The playground of the customer site: it lists the account's active API  *)
(* keys, reveals the secret of the selected one and the models it may use, *)
(* and generates images with that secret. The requests for a key's secret  *)
(* and models are numbered, and only the last one may write; the requests  *)
(* for the list are not numbered.                                          *)
(***************************************************************************)
EXTENDS Naturals

CONSTANTS Keys, NoKey,
          MaxRequests,    \* requests for a key's secret, in one visit
          MaxLists,       \* requests for the list, in one visit
          MaxImages       \* maxReferenceImages

ASSUME PlaygroundAssumption ==
    /\ NoKey \notin Keys
    /\ MaxRequests \in Nat /\ MaxLists \in Nat /\ MaxImages \in Nat

VARIABLES activeKeys,     \* server: the keys that are active
          mounted,        \* mountedRef
          keyRequest,     \* keyRequestRef: the number of the last request
          requests,       \* requests in flight: [id, key, step, ofList]
          lists,          \* list requests in flight: [n, keys, done]
          listsSent,
          apiKeys,        \* the keys the page lists
          selectedKey,    \* selectedKeyId
          secret,         \* apiSecret, as the key it belongs to
          loadingKeys, loadingModels,
          generating,     \* no, or the key whose secret the request carries
          results,        \* whether images are shown
          images          \* the number of reference images

playgroundVars == <<activeKeys, mounted, keyRequest, requests, lists, listsSent, apiKeys,
                    selectedKey, secret, loadingKeys, loadingModels, generating, results, images>>
generation == <<generating, results, images>>
selection == <<keyRequest, requests, selectedKey, secret, loadingModels>>

Request == [id: 1..MaxRequests, key: Keys, ofList: BOOLEAN]
List == [n: 1..MaxLists, keys: SUBSET Keys, done: BOOLEAN]

\* loadModelsForKey up to its first await: a new number, and nothing selected of
\* the key before remains. `kept` are the requests already in flight.
LoadModels(k, ofList) ==
    /\ keyRequest < MaxRequests
    /\ keyRequest' = keyRequest + 1
    /\ requests' = requests \union {[id |-> keyRequest + 1, key |-> k, ofList |-> ofList]}
    /\ secret' = NoKey
    /\ loadingModels' = TRUE

\* loadKeys up to its first await.
SendList ==
    /\ listsSent < MaxLists
    /\ listsSent' = listsSent + 1
    /\ lists' = lists \union {[n |-> listsSent + 1, keys |-> {}, done |-> FALSE]}
    /\ loadingKeys' = TRUE

\* The page is mounted and its effect loads the list.
PlaygroundInit ==
    /\ activeKeys \in SUBSET Keys
    /\ mounted = TRUE /\ keyRequest = 0 /\ requests = {}
    /\ lists = {} /\ listsSent = 0
    /\ apiKeys = {} /\ selectedKey = NoKey /\ secret = NoKey
    /\ loadingKeys = TRUE /\ loadingModels = FALSE
    /\ generating = NoKey /\ results = FALSE /\ images = 0

Mount ==
    /\ mounted /\ listsSent = 0
    /\ SendList
    /\ UNCHANGED <<activeKeys, mounted, apiKeys, selection, generation>>

-----------------------------------------------------------------------------
\* What the page shows: the form, unless there is no key and no list on its way.
FormShown == loadingKeys \/ apiKeys # {}
CanGenerate == mounted /\ FormShown /\ secret # NoKey /\ ~loadingModels /\ generating = NoKey

\* The refresh button of the toolbar.
RefreshList ==
    /\ mounted /\ listsSent > 0 /\ ~loadingKeys /\ generating = NoKey
    /\ SendList
    /\ UNCHANGED <<activeKeys, mounted, apiKeys, selection, generation>>

\* selectKey: the selection and the request change together.
SelectKey(k) ==
    /\ mounted /\ FormShown
    /\ ~loadingKeys /\ generating = NoKey
    /\ k \in apiKeys
    /\ selectedKey' = k
    /\ LoadModels(k, FALSE)
    /\ UNCHANGED <<activeKeys, mounted, lists, listsSent, apiKeys, loadingKeys, generation>>

\* refreshModels: the models of the selected key are read again.
RefreshModels ==
    /\ mounted /\ FormShown
    /\ selectedKey # NoKey /\ ~loadingModels /\ generating = NoKey
    /\ LoadModels(selectedKey, FALSE)
    /\ UNCHANGED <<activeKeys, mounted, lists, listsSent, apiKeys, selectedKey, loadingKeys,
                   generation>>

\* generate: the request carries the secret the page holds now.
Generate ==
    /\ CanGenerate
    /\ generating' = secret
    /\ results' = FALSE
    /\ UNCHANGED <<activeKeys, mounted, lists, listsSent, apiKeys, selection, loadingKeys, images>>

\* The button that clears the images.
ClearResults ==
    /\ mounted /\ results /\ generating = NoKey
    /\ results' = FALSE
    /\ UNCHANGED <<activeKeys, mounted, lists, listsSent, apiKeys, selection, loadingKeys,
                   generating, images>>

\* addReferenceFiles takes what fits; removeReferenceImage takes one away.
AddImages(n) ==
    /\ mounted /\ FormShown /\ generating = NoKey
    /\ images < MaxImages
    /\ images' = IF n <= MaxImages - images THEN images + n ELSE MaxImages
    /\ UNCHANGED <<activeKeys, mounted, lists, listsSent, apiKeys, selection, loadingKeys,
                   generating, results>>
RemoveImage ==
    /\ mounted /\ FormShown /\ generating = NoKey
    /\ images > 0
    /\ images' = images - 1
    /\ UNCHANGED <<activeKeys, mounted, lists, listsSent, apiKeys, selection, loadingKeys,
                   generating, results>>

\* The page is left: the effect's cleanup.
Unmount ==
    /\ mounted /\ listsSent > 0 /\ keyRequest < MaxRequests
    /\ mounted' = FALSE
    /\ keyRequest' = keyRequest + 1
    /\ UNCHANGED <<activeKeys, requests, lists, listsSent, apiKeys, selectedKey, secret,
                   loadingKeys, loadingModels, generation>>

\* Keys are enabled and disabled elsewhere.
Switch(k) ==
    /\ activeKeys' = (activeKeys \ {k}) \union ({k} \ activeKeys)
    /\ UNCHANGED <<mounted, lists, listsSent, apiKeys, selection, loadingKeys, generation>>

-----------------------------------------------------------------------------
ServeList(l) ==
    /\ l \in lists /\ ~l.done
    /\ lists' = (lists \ {l}) \union {[l EXCEPT !.keys = activeKeys, !.done = TRUE]}
    /\ UNCHANGED <<activeKeys, mounted, listsSent, apiKeys, selection, loadingKeys, generation>>

\* The list arrives. Its first key is selected and its models are requested; with
\* no key, the secret is dropped but a request in flight keeps its number.
ListArrives(l) ==
    /\ l \in lists /\ l.done
    /\ lists' = lists \ {l}
    /\ IF ~mounted THEN UNCHANGED <<apiKeys, selection, loadingKeys>>
       ELSE /\ apiKeys' = l.keys
            /\ loadingKeys' = FALSE
            /\ \/ \E k \in l.keys : selectedKey' = k /\ LoadModels(k, TRUE)
               \/ /\ l.keys = {}
                  /\ selectedKey' = NoKey /\ secret' = NoKey
                  /\ UNCHANGED <<keyRequest, requests, loadingModels>>
    /\ UNCHANGED <<activeKeys, mounted, listsSent, generation>>

\* The list cannot be read.
ListFails(l) ==
    /\ l \in lists
    /\ lists' = lists \ {l}
    /\ loadingKeys' = (loadingKeys /\ ~mounted)
    /\ UNCHANGED <<activeKeys, mounted, listsSent, apiKeys, selection, generation>>

CurrentMounted(r) == mounted
Current(r) == mounted /\ r.id = keyRequest
\* The end of a request that a list started ends that list's spinner as well.
EndRequest(r) ==
    /\ requests' = requests \ {r}
    /\ loadingModels' = (loadingModels /\ ~Current(r))
    /\ loadingKeys' = (loadingKeys /\ ~(mounted /\ r.ofList))
    /\ UNCHANGED <<activeKeys, mounted, keyRequest, lists, listsSent, apiKeys, selectedKey,
                   generation>>

\* The secret and the models of r.key: written if r is the last request.
ModelsArrive(r) ==
    /\ r \in requests
    /\ secret' = IF Current(r) THEN r.key ELSE secret
    /\ EndRequest(r)
ModelsFail(r) ==
    /\ r \in requests
    /\ UNCHANGED secret
    /\ EndRequest(r)

\* The images, or an error, arrive. The session is refreshed (PortalSession).
Generated ==
    /\ generating # NoKey
    /\ results' \in BOOLEAN
    /\ generating' = NoKey
    /\ UNCHANGED <<activeKeys, mounted, lists, listsSent, apiKeys, selection, loadingKeys, images>>

PlaygroundAnswer ==
    \/ \E l \in lists : ServeList(l) \/ ListArrives(l) \/ ListFails(l)
    \/ \E r \in requests : ModelsArrive(r) \/ ModelsFail(r)
    \/ Generated

PlaygroundNext ==
    \/ Mount \/ RefreshList \/ RefreshModels \/ Unmount
    \/ \E k \in Keys : SelectKey(k) \/ Switch(k)
    \/ Generate \/ ClearResults
    \/ \E n \in 1..MaxImages : AddImages(n)
    \/ RemoveImage
    \/ PlaygroundAnswer

PlaygroundSpec == PlaygroundInit /\ [][PlaygroundNext]_playgroundVars

-----------------------------------------------------------------------------
PlaygroundTypeOK ==
    /\ activeKeys \in SUBSET Keys /\ mounted \in BOOLEAN
    /\ keyRequest \in 0..MaxRequests /\ requests \in SUBSET Request
    /\ lists \in SUBSET List /\ listsSent \in 0..MaxLists
    /\ apiKeys \in SUBSET Keys /\ selectedKey \in Keys \union {NoKey}
    /\ secret \in Keys \union {NoKey}
    /\ loadingKeys \in BOOLEAN /\ loadingModels \in BOOLEAN
    /\ generating \in Keys \union {NoKey} /\ results \in BOOLEAN /\ images \in 0..MaxImages

\* While the page is shown its spinners turn only for a request that will stop
\* them, although newer requests void older ones.
PlaygroundFreed ==
    mounted => /\ loadingModels => \E r \in requests : Current(r)
               /\ loadingKeys => listsSent = 0 \/ lists # {} \/ \E r \in requests : r.ofList

\* The secret a generation would spend belongs to the key the page shows as
\* selected, though selections, refreshes of the list and answers overtake each
\* other: as long as the page lists a key.
SecretOfSelected == apiKeys # {} /\ secret # NoKey => secret = selectedKey
=============================================================================
