CONSTANTS
  ann = ann
  t1 = t1
  t2 = t2
  p1 = p1
  p2 = p2
  small = small
  large = large
  Nil = Nil
  w1 = w1
  w2 = w2
SPECIFICATION Spec
INVARIANTS TypeOK ThumbsListed BucketsFollowDue ExpiredInvalid
PROPERTIES UploadAnswered HooksCalled DueServed ClosedEnds
