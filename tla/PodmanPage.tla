------------------------------ MODULE PodmanPage -----------------------------
(***************************************************************************)
(* The containers page (router.go, podmanPageData; modules/podman): the    *)
(* list of containers and the list of images, one command each, while      *)
(* podman is used by others and by this program's own requests.            *)
(***************************************************************************)
EXTENDS Naturals, Sequences

CONSTANTS Containers, Images,
          NoImage,           \* the image of a container that does not exist
          MaxPodmanChanges   \* bound: changes of podman during one request

ASSUME PodmanAssumption == NoImage \notin Images /\ MaxPodmanChanges \in Nat

VARIABLES
  imageOf,       \* imageOf[c]: the image of container c
  images,        \* the images on the host
  podChanges,    \* how often these have changed during the request
  podMode,       \* what the boot found podman to be, for the life of the process
  podAt,         \* the listing the request is at, 0 while there is no request
  podShown,      \* the pairs of a container and its image on the page
  podImages,     \* the images on the page
  podError,      \* the page shows an error or a note, and no lists
  removed        \* history: the containers removed during the request

podmanHost == <<imageOf, images, podChanges>>
podPage == <<podShown, podImages, podError>>
podmanVars == <<podmanHost, podMode, podAt, podPage, removed>>

\* Mutant: the images first.
ListingsSwapped == <<"images", "containers">>

\* What Snapshot lists, in this order.
Listings == <<"containers", "images">>

Answered == Len(Listings) + 1

PodmanTypeOK ==
  /\ imageOf \in [Containers -> Images \cup {NoImage}]
  /\ images \subseteq Images
  /\ \A c \in Containers : imageOf[c] \in images \cup {NoImage}
  /\ podChanges \in 0 .. MaxPodmanChanges
  /\ podMode \in {"podman", "degraded", "fake"}
  /\ podAt \in 0 .. Answered
  /\ podShown \subseteq Containers \X Images
  /\ podImages \subseteq Images
  /\ podError \in BOOLEAN
  /\ removed \subseteq Containers

PodmanInit ==
  /\ images \in SUBSET Images
  /\ imageOf \in [Containers -> images \cup {NoImage}]
  /\ podChanges = 0
  /\ podMode \in {"podman", "degraded", "fake"}
  /\ podAt = 0
  /\ podShown = {}
  /\ podImages = {}
  /\ podError = FALSE
  /\ removed = {}

-----------------------------------------------------------------------------
(* What podman does for others, and for this program's own requests. *)

PodmanChanges ==
  /\ podChanges < MaxPodmanChanges
  /\ podChanges' = podChanges + 1
  /\ UNCHANGED <<podMode, podAt, podPage>>

\* A pull, or the pull that comes before a run.
PullImage(i) ==
  /\ i \notin images
  /\ images' = images \cup {i}
  /\ PodmanChanges
  /\ UNCHANGED <<imageOf, removed>>

RunContainer(c, i) ==
  /\ imageOf[c] = NoImage
  /\ i \in images
  /\ imageOf' = [imageOf EXCEPT ![c] = i]
  /\ PodmanChanges
  /\ UNCHANGED <<images, removed>>

RemoveContainer(c) ==
  /\ imageOf[c] # NoImage
  /\ imageOf' = [imageOf EXCEPT ![c] = NoImage]
  /\ removed' = removed \cup {c}
  /\ PodmanChanges
  /\ UNCHANGED images

\* An image leaves only with the containers that use it.
RemoveImage(i) ==
  LET users == {c \in Containers : imageOf[c] = i}
  IN  /\ i \in images
      /\ images' = images \ {i}
      /\ imageOf' = [c \in Containers |-> IF c \in users THEN NoImage ELSE imageOf[c]]
      /\ removed' = removed \cup users
      /\ PodmanChanges

-----------------------------------------------------------------------------
(* The request. *)

OpenContainersPage ==
  /\ podAt \in {0, Answered}
  /\ podAt' = 1
  /\ podShown' = {}
  /\ podImages' = {}
  /\ podError' = FALSE
  /\ podChanges' = 0
  /\ removed' = {}
  /\ UNCHANGED <<imageOf, images, podMode>>

\* Without podman, or with what the probe at boot took for a podman that does
\* not answer, the page is a note.
ShowNote ==
  /\ podAt = 1
  /\ podMode # "podman"
  /\ podAt' = Answered
  /\ podError' = TRUE
  /\ UNCHANGED <<podmanHost, podMode, podShown, podImages, removed>>

IsAt(listing) ==
  /\ podMode = "podman"
  /\ podAt \in DOMAIN Listings
  /\ Listings[podAt] = listing

ListContainers ==
  /\ IsAt("containers")
  /\ podAt' = podAt + 1
  /\ podShown' = {e \in Containers \X Images : imageOf[e[1]] = e[2]}
  /\ UNCHANGED <<podmanHost, podMode, podImages, podError, removed>>

ListImages ==
  /\ IsAt("images")
  /\ podAt' = podAt + 1
  /\ podImages' = images
  /\ UNCHANGED <<podmanHost, podMode, podShown, podError, removed>>

\* Either command exits with an error or is killed after five seconds: the page
\* is the error, also after the containers were listed.
ListingFails ==
  /\ podMode = "podman"
  /\ podAt \in DOMAIN Listings
  /\ podAt' = Answered
  /\ podShown' = {}
  /\ podImages' = {}
  /\ podError' = TRUE
  /\ UNCHANGED <<podmanHost, podMode, removed>>

PodmanNext ==
  \/ OpenContainersPage
  \/ ShowNote
  \/ ListContainers
  \/ ListImages
  \/ ListingFails
  \/ \E i \in Images : PullImage(i) \/ RemoveImage(i)
  \/ \E c \in Containers : RemoveContainer(c) \/ \E i \in Images : RunContainer(c, i)

PodmanSpec == PodmanInit /\ [][PodmanNext]_podmanVars

-----------------------------------------------------------------------------
\* A container on the page whose image is not is one that was removed while the
\* page was made: containers are listed before images, so one that has just
\* been pulled and run is never shown without its image.
ContainersShowTheirImage ==
  podAt = Answered =>
    \A e \in podShown : e[2] \in podImages \/ e[1] \in removed
=============================================================================
