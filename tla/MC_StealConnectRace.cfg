\* Two tasks steal at once from peers nobody is bound to yet.
CONSTANTS
    Tasks = {t1, t2}
    NumPeers = 3
    MySlot = 1
    MaxRequests = 1
SPECIFICATION Spec
INVARIANT OneRpcPerPeer
