\* Two steal tasks, three peer_cores entries with our own core in the middle, two requests each.
CONSTANTS
    Tasks = {t1, t2}
    NumPeers = 3
    MySlot = 1
    MaxRequests = 2
SPECIFICATION Spec
INVARIANTS TypeOK StealTriesEveryPeer
\* The server stops once every task served its requests.
CHECK_DEADLOCK FALSE
