\* Three names and three accounts: a rename has a free name to go to while another
\* wallet exists, and one account can be held twice.  Two kills.
CONSTANTS
    Names = {1, 2, 3}
    Addresses = {a1, a2}
    NoName = NoName
    NoAddress = NoAddress
    FirstOf <- MCFirstOf
    MaxCrashes = 2
SPECIFICATION Spec
INVARIANT TablesAgree
INVARIANT ShownIsCurrent
INVARIANT SuccessMeansStored
PROPERTY KeystoreNeverLost
PROPERTY ActsAtOnce
PROPERTY HudGoes
\* After an invalid referral code the HUD stays: only a kill goes on from there.
CHECK_DEADLOCK FALSE
