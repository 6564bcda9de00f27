SPECIFICATION Spec
CONSTANTS
    NoTrip = NoTrip
    Locations = {l1, l2, l3}
    Others = {o1}
    Trips = {t1, t2}
    Limit = 2
SYMMETRY Symmetric
INVARIANT TypeOK
INVARIANT ManagerFollowsButtons
INVARIANT OnlyLateLocationsAreStale
INVARIANT PlacesAccountedFor
PROPERTY TripFixedWhileTracking
